---- MODULE Spec2Model ----
(***************************************************************************)
(* A model of the retrieval-augmented-generation pipeline:                 *)
(*   - lib/embeddings.ts        generateEmbedding / generateEmbeddings     *)
(*   - lib/db/vector-store.ts   storeDocumentChunks                        *)
(*   - lib/retrieval            retrieveRelevantChunks                     *)
(*   - lib/answer-generation    generateAnswer                             *)
(*   - app/api/chat/route.ts    POST /api/chat                             *)
(*                                                                         *)
(* Texts are natural numbers: 0 is a blank text (empty or whitespace-only),*)
(* a positive number names one distinct non-blank text.  A vector is a     *)
(* record [of, len]: the text it embeds and its number of dimensions.      *)
(***************************************************************************)
EXTENDS Integers, Sequences, FiniteSets, TLC

VARIABLES
  \* ---- embedding client (lib/embeddings.ts)
  e_fn,         \* "none" | "single" | "batch": which function is running
  e_texts,      \* the argument (generateEmbedding: a one-element list)
  validTexts,   \* texts after the blank filter
  e_i,          \* offset of the current batch in validTexts
  attempt,      \* the retry loop's counter
  e_pc,         \* "idle" | "call" | "sleep" | "done"
  embeddings,   \* vectors accumulated / returned
  e_result,     \* "none" | "ok" | "error"
  e_error,      \* which error was thrown
  calls,        \* history: one record per provider call
  sleeps,       \* history: the backoff sleeps, in ms, in order
  \* ---- vector store write path (lib/db/vector-store.ts) and the database
  chunks,           \* the argument of storeDocumentChunks
  s_pc,             \* "idle" | "begin" | "embed" | "embedding" | "insert" |
                    \* "commit" | "catch" | "done"
  s_i,              \* the INSERT loop's index (1-based)
  storedCount,
  storeResult,      \* [how: "none" | "returned" | "threw", success, vectorCount]
  inTx,             \* the connection has an open transaction
  txRows,           \* rows written in the open transaction, not yet visible
  connAlive,        \* the checked-out connection still works
  document_chunks,  \* the committed rows: what any other connection sees
  checkedOut,       \* clients checked out of the pool
  \* ---- retriever (lib/retrieval: retrieveRelevantChunks)
  r_pc,             \* "idle" | "embedding" | "connect" | "set" | "select" | "done"
  r_query,          \* the query text
  r_options,        \* the options object: [has, topK, county, minDistance],
                    \* has = the names of the options that are present
  r_result,         \* [how: "none" | "returned" | "threw", rows]
  r_failure,        \* history: what failed during the call: "none" |
                    \* "embedding" | "connect" | "query"
  \* ---- POST /api/chat (app/api/chat/route.ts) and generateAnswer
  c_pc,             \* "idle" | "retrieving" | "creating" | "streaming" | "done"
  body,             \* the request body
  response,         \* [kind: "none" | "json" | "stream", status]
  llmCalls,         \* history: calls of openai.chat.completions.create
  upstream,         \* the language model's stream: [items, ending]
  pulled,           \* items of the upstream stream consumed so far
  i_pc,             \* generateAnswer's start(): "idle" | "pulling" | "finished"
  i_state,          \* its ReadableStream: "readable" | "errored"
  i_queue,          \* chunks enqueued on it and not yet read
  i_closed,         \* controller.close() was called on it
  o_pc,             \* the route's start(): "idle" | "reading" | "finished"
  o_state,          \* the response stream: "readable" | "closed" | "errored" |
                    \* "cancelled" (the client went away)
  sent,             \* history: the events enqueued on the response stream
  sources,          \* extractSources(chunks)
  pulledAtCancel,   \* history: `pulled` when the client disconnected, or -1
  \* ---- markdown processor (lib/md-processor: processMarkdownDocument)
  document,         \* the file content
  ck_result,        \* [how: "none" | "returned" | "threw", chunks]
  \* ---- lib/retrieval: extractSources
  x_chunks,         \* the argument
  x_result,         \* [how: "none" | "returned", sources]
  \* ---- deleteDocumentVectors and DELETE /api/documents/[id]
  dv_pc,            \* deleteDocumentVectors: "idle" | "query" | "done"
  dv_id,            \* its documentId
  dv_result,        \* [how: "none" | "returned" | "threw", value, logged]
  dr_pc,            \* the DELETE route: "idle" | "check" | "delete" | "done"
  dr_id,            \* params.id
  dr_count,         \* chunkCount
  dr_response,      \* [status, chunksDeleted]
  rowsBefore,       \* history: the table when the delete operation started
  \* ---- uploadDocument (lib/api-client.ts) and POST /api/upload
  u_pc,             \* the client: "idle" | "fetching" | "sleeping" | "done"
  u_attempt,        \* retryWithBackoff's attempt
  u_file,           \* the file content
  u_result,         \* [how: "none" | "returned" | "threw", status]
  h_pc,             \* the route handler: "idle" | "storing" | "responded"
  h_ids,            \* document ids generated so far
  h_response,       \* the handler's response: [status, documentId]
  fetches,          \* history: requests that reached the handler
  \* ---- concurrent requests on /api/documents/[id] and /api/upload
  cd_pc,            \* per DELETE request: "idle" | "check" | "delete" | "done"
  cd_id,            \* per request: params.id
  cd_count,         \* per request: chunkCount
  cd_removed,       \* history, per request: rows its DELETE statement removed
  cd_response,      \* per request: [status, chunksDeleted]
  cu_commits,       \* uploads committed by other requests meanwhile
  \* ---- database utilities (lib/db/postgres-client.ts, postgres-test.ts)
  p_op,             \* "none" | "testConnection" | "getTableStats" | "initDatabase"
  p_pc,             \* "idle" | "query" | "done"
  p_stmt,           \* the statement the operation is at
  p_result,         \* [how: "none" | "returned" | "threw", success]
  p_calls,          \* operations started so far
  \* ---- parseChatStream (lib/api-client.ts)
  ps_pc,            \* "idle" | "reading" | "done" | "failed"
  ps_events,        \* the events the route sent, in order
  ps_stream,        \* the characters of the response body not yet read
  ps_buffer,        \* buffer
  ps_calls,         \* history: the callbacks invoked, [cb, arg], in order
  ps_partial        \* history: reads that ended inside a message

embVars == <<e_fn, e_texts, validTexts, e_i, attempt, e_pc, embeddings,
             e_result, e_error, calls, sleeps>>

storeVars == <<chunks, s_pc, s_i, storedCount, storeResult, inTx, txRows,
               connAlive, document_chunks, checkedOut>>

retrVars == <<r_pc, r_query, r_options, r_result, r_failure>>

chatVars == <<c_pc, body, response, llmCalls, upstream, pulled, i_pc, i_state,
              i_queue, i_closed, o_pc, o_state, sent, sources, pulledAtCancel>>

chunkVars == <<document, ck_result>>

\* The state of the components outside the embedding client, the store, the
\* retriever and the chat route.
srcVars == <<x_chunks, x_result>>

delVars == <<dv_pc, dv_id, dv_result, dr_pc, dr_id, dr_count, dr_response,
             rowsBefore>>

uplVars == <<u_pc, u_attempt, u_file, u_result, h_pc, h_ids, h_response, fetches>>

concVars == <<cd_pc, cd_id, cd_count, cd_removed, cd_response, cu_commits>>

\* The state of the concurrent requests and of the utilities.
poolVars == <<p_op, p_pc, p_stmt, p_result, p_calls>>

parseVars == <<ps_pc, ps_events, ps_stream, ps_buffer, ps_calls, ps_partial>>

lateVars == <<concVars, poolVars, parseVars>>

otherVars == <<chunkVars, srcVars, delVars, uplVars, lateVars>>

dbVars == <<connAlive, checkedOut>>

writeVars == <<chunks, s_pc, s_i, storedCount, storeResult, inTx, txRows,
               document_chunks>>

vars == <<embVars, storeVars, retrVars, chatVars, otherVars>>

----------------------------------------------------------------------------
\* Program constants

maxRetries == 3
batchSize == 100
EMBEDDING_DIMENSIONS == 1536

----------------------------------------------------------------------------
\* Helpers

Min(a, b) == IF a < b THEN a ELSE b

Last(s) == s[Len(s)]

IsBlank(t) == t = 0

----------------------------------------------------------------------------
\* The embedding provider (external): what one embeddings.create call can
\* answer for a batch of texts.

ProviderEmbed(t) == [of |-> t, len |-> EMBEDDING_DIMENSIONS]

GoodData(batch) == [k \in 1..Len(batch) |-> ProviderEmbed(batch[k])]

WrongDimData(batch) ==
  [k \in 1..Len(batch) |->
     IF k = Len(batch) THEN [of |-> batch[k], len |-> EMBEDDING_DIMENSIONS - 1]
     ELSE ProviderEmbed(batch[k])]

ProviderResponses(batch) ==
  { [status |-> 200, data |-> GoodData(batch)],
    [status |-> 200, data |-> WrongDimData(batch)],
    [status |-> 200, data |-> SubSeq(GoodData(batch), 1, Len(batch) - 1)],
    [status |-> 429, data |-> <<>>],
    [status |-> 401, data |-> <<>>],
    [status |-> 0,   data |-> <<>>] }      \* 0: network error, no HTTP status

----------------------------------------------------------------------------
\* lib/embeddings.ts

\* The body of the try block: what it throws, or "ok".
TryOutcome(fn, resp, batch) ==
  IF resp.status = 429 THEN "rate_limit"
  ELSE IF resp.status = 401 THEN "auth"
  ELSE IF resp.status # 200 THEN "network"
  ELSE IF fn = "single" /\ Len(resp.data) = 0 THEN "count"
  ELSE IF fn = "batch" /\ Len(resp.data) # Len(batch) THEN "count"
  ELSE IF fn = "single" /\ resp.data[1].len # EMBEDDING_DIMENSIONS THEN "dimension"
  ELSE IF fn = "batch"
          /\ \E k \in 1..Len(resp.data) : resp.data[k].len # EMBEDDING_DIMENSIONS
       THEN "dimension"
  ELSE "ok"

\* A backoff that starts at one second instead of two.
waitTime_FromOne(att) == (2 ^ (att - 1)) * 1000

waitTime(att) == (2 ^ att) * 1000

\* A catch block without the 401 test: an auth error is retried like any other.
CatchDecision_AuthRetried(fn, outcome, att) ==
  IF outcome = "rate_limit" THEN "sleep"
  ELSE IF att < 3 THEN "sleep"
  ELSE IF fn = "batch" THEN "throw_failed"
  ELSE "fall"

\* The catch block: "sleep" (backoff, then continue), "throw_auth",
\* "throw_failed" (batch: throw after maxRetries) or "fall" (single: leave the
\* catch block, the loop ends and the function throws).
CatchDecision(fn, outcome, att) ==
  IF outcome = "rate_limit" THEN "sleep"
  ELSE IF outcome = "auth" THEN "throw_auth"
  ELSE IF att < maxRetries THEN "sleep"
  ELSE IF fn = "batch" THEN "throw_failed"
  ELSE "fall"

\* What follows a retry loop that ended without success and without a throw:
\* generateEmbedding throws, generateEmbeddings goes on with the next batch.
AfterLoopExit(fn) == IF fn = "single" THEN "throw" ELSE "next_batch"

\* The call history is kept for calls made directly to the embedding client,
\* not for those made on behalf of the vector store or the retriever.
Tracing == s_pc = "idle" /\ r_pc = "idle"

CurrentBatch == SubSeq(validTexts, e_i + 1, Min(e_i + batchSize, Len(validTexts)))

\* generateEmbedding(text): validation and the first iteration's entry.
generateEmbedding(text) ==
  /\ e_pc = "idle"
  /\ e_fn' = "single"
  /\ e_texts' = <<text>>
  /\ e_i' = 0
  /\ attempt' = 1
  /\ embeddings' = <<>>
  /\ UNCHANGED <<calls, sleeps>>
  /\ IF IsBlank(text)
     THEN /\ e_pc' = "done" /\ e_result' = "error" /\ e_error' = "empty_text"
          /\ validTexts' = <<>>
     ELSE /\ e_pc' = "call" /\ e_result' = "none" /\ e_error' = "none"
          /\ validTexts' = <<text>>

\* generateEmbeddings(texts): validation, the blank filter, the first batch.
generateEmbeddings(texts) ==
  /\ e_pc = "idle"
  /\ e_fn' = "batch"
  /\ e_texts' = texts
  /\ e_i' = 0
  /\ attempt' = 1
  /\ embeddings' = <<>>
  /\ UNCHANGED <<calls, sleeps>>
  /\ LET valid == SelectSeq(texts, LAMBDA t : ~IsBlank(t)) IN
     /\ validTexts' = valid
     /\ IF Len(texts) = 0
        THEN e_pc' = "done" /\ e_result' = "ok" /\ e_error' = "none"
        ELSE IF Len(valid) = 0
        THEN e_pc' = "done" /\ e_result' = "error" /\ e_error' = "no_valid_text"
        ELSE e_pc' = "call" /\ e_result' = "none" /\ e_error' = "none"

\* Leaving the retry loop of the current batch without a throw.
LoopExit ==
  IF AfterLoopExit(e_fn) = "throw"
  THEN /\ e_pc' = "done" /\ e_result' = "error" /\ e_error' = "failed_after_retries"
       /\ UNCHANGED <<e_i, attempt>>
  ELSE /\ e_i' = e_i + batchSize
       /\ attempt' = 1
       /\ e_error' = e_error
       /\ IF e_i + batchSize < Len(validTexts)
          THEN e_pc' = "call" /\ e_result' = e_result
          ELSE e_pc' = "done" /\ e_result' = "ok"

\* One openai.embeddings.create call and the code that handles its answer.
ProviderCall ==
  /\ e_pc = "call"
  /\ \E resp \in ProviderResponses(CurrentBatch) :
       LET outcome == TryOutcome(e_fn, resp, CurrentBatch)
           decision == CatchDecision(e_fn, outcome, attempt)
       IN
       /\ calls' = IF Tracing
                   THEN Append(calls, [i |-> e_i, attempt |-> attempt,
                                       outcome |-> outcome,
                                       sleepsBefore |-> Len(sleeps)])
                   ELSE calls
       /\ IF outcome = "ok"
          THEN /\ embeddings' = embeddings \o resp.data
               /\ sleeps' = sleeps
               /\ IF e_fn = "single"
                  THEN /\ e_pc' = "done" /\ e_result' = "ok"
                       /\ UNCHANGED <<e_i, attempt, e_error>>
                  ELSE \* break: on to the next batch
                       /\ e_i' = e_i + batchSize
                       /\ attempt' = 1
                       /\ e_error' = e_error
                       /\ IF e_i + batchSize < Len(validTexts)
                          THEN e_pc' = "call" /\ e_result' = e_result
                          ELSE e_pc' = "done" /\ e_result' = "ok"
          ELSE /\ embeddings' = embeddings
               /\ CASE decision = "sleep" ->
                         /\ sleeps' = IF Tracing
                                      THEN Append(sleeps, waitTime(attempt))
                                      ELSE sleeps
                         /\ e_pc' = "sleep"
                         /\ UNCHANGED <<e_i, attempt, e_result, e_error>>
                    [] decision = "throw_auth" ->
                         /\ e_pc' = "done" /\ e_result' = "error"
                         /\ e_error' = "invalid_api_key"
                         /\ UNCHANGED <<e_i, attempt, sleeps>>
                    [] decision = "throw_failed" ->
                         /\ e_pc' = "done" /\ e_result' = "error"
                         /\ e_error' = "failed_after_retries"
                         /\ UNCHANGED <<e_i, attempt, sleeps>>
                    [] decision = "fall" ->
                         \* attempt++ ends the loop, the function throws
                         /\ sleeps' = sleeps
                         /\ LoopExit
  /\ UNCHANGED <<e_fn, e_texts, validTexts>>

\* The backoff sleep ends: `continue`, attempt++ and the loop condition.
SleepDone ==
  /\ e_pc = "sleep"
  /\ IF attempt + 1 <= maxRetries
     THEN /\ attempt' = attempt + 1
          /\ e_pc' = "call"
          /\ UNCHANGED <<e_i, e_result, e_error>>
     ELSE LoopExit
  /\ UNCHANGED <<e_fn, e_texts, validTexts, embeddings, calls, sleeps>>

----------------------------------------------------------------------------
\* Inputs of the embedding client

MkTexts(n, blanks) == [k \in 1..n |-> IF k \in blanks THEN 0 ELSE k]

TextLens == {0, 1, 2, batchSize, batchSize + 1}

InputTexts ==
  { MkTexts(n, {}) : n \in TextLens } \cup
  { MkTexts(n, {1}) : n \in TextLens \ {0} } \cup
  { MkTexts(n, 1..n) : n \in {1, 2} }

SingleTexts == {0, 1, 2}

EmbInit ==
  /\ e_fn = "none"
  /\ e_texts = <<>>
  /\ validTexts = <<>>
  /\ e_i = 0
  /\ attempt = 1
  /\ e_pc = "idle"
  /\ embeddings = <<>>
  /\ e_result = "none"
  /\ e_error = "none"
  /\ calls = <<>>
  /\ sleeps = <<>>

CallGenerateEmbedding == \E text \in SingleTexts : generateEmbedding(text)

CallGenerateEmbeddings == \E texts \in InputTexts : generateEmbeddings(texts)

StoreIdle ==
  /\ chunks = <<>>
  /\ s_pc = "idle"
  /\ s_i = 0
  /\ storedCount = 0
  /\ storeResult = [how |-> "none", success |-> FALSE, vectorCount |-> 0]
  /\ inTx = FALSE
  /\ txRows = {}
  /\ connAlive = TRUE
  /\ document_chunks = {}
  /\ checkedOut = 0

EmbNext ==
  \/ CallGenerateEmbedding /\ UNCHANGED <<storeVars, retrVars, chatVars, otherVars>>
  \/ CallGenerateEmbeddings /\ UNCHANGED <<storeVars, retrVars, chatVars, otherVars>>
  \/ ProviderCall /\ UNCHANGED <<storeVars, retrVars, chatVars, otherVars>>
  \/ SleepDone /\ UNCHANGED <<storeVars, retrVars, chatVars, otherVars>>

NoOptions == [has |-> {}, topK |-> 0, county |-> "", minDistance |-> 0]

RetrIdle ==
  /\ r_pc = "idle"
  /\ r_query = 0
  /\ r_options = NoOptions
  /\ r_result = [how |-> "none", rows |-> <<>>]
  /\ r_failure = "none"

NoBody == [valid |-> FALSE, message |-> <<>>, hasCounty |-> FALSE, county |-> ""]

ChatIdle ==
  /\ c_pc = "idle"
  /\ body = NoBody
  /\ response = [kind |-> "none", status |-> 0]
  /\ llmCalls = 0
  /\ upstream = [items |-> <<>>, ending |-> "end"]
  /\ pulled = 0
  /\ i_pc = "idle"
  /\ i_state = "readable"
  /\ i_queue = <<>>
  /\ i_closed = FALSE
  /\ o_pc = "idle"
  /\ o_state = "readable"
  /\ sent = <<>>
  /\ sources = <<>>
  /\ pulledAtCancel = -1

NoChunking == [how |-> "none", chunks |-> <<>>]

ChunkIdle ==
  /\ document = <<>>
  /\ ck_result = NoChunking

NoSources == [how |-> "none", sources |-> <<>>]

SrcIdle ==
  /\ x_chunks = <<>>
  /\ x_result = NoSources

NoDeleteResult == [how |-> "none", value |-> FALSE, logged |-> ""]

NoResponse == [status |-> 0, chunksDeleted |-> 0]

DelIdle ==
  /\ dv_pc = "idle"
  /\ dv_id = ""
  /\ dv_result = NoDeleteResult
  /\ dr_pc = "idle"
  /\ dr_id = ""
  /\ dr_count = 0
  /\ dr_response = NoResponse
  /\ rowsBefore = {}

NoUploadResult == [how |-> "none", status |-> 0]

NoUploadResponse == [status |-> 0, documentId |-> ""]

UplIdle ==
  /\ u_pc = "idle"
  /\ u_attempt = 0
  /\ u_file = <<>>
  /\ u_result = NoUploadResult
  /\ h_pc = "idle"
  /\ h_ids = 0
  /\ h_response = NoUploadResponse
  /\ fetches = 0

\* The DELETE requests that run side by side.
Requests == {1, 2}

ConcIdle ==
  /\ cd_pc = [t \in Requests |-> "idle"]
  /\ cd_id = [t \in Requests |-> ""]
  /\ cd_count = [t \in Requests |-> 0]
  /\ cd_removed = [t \in Requests |-> 0]
  /\ cd_response = [t \in Requests |-> NoResponse]
  /\ cu_commits = 0

NoPoolResult == [how |-> "none", success |-> FALSE]

PoolIdle ==
  /\ p_op = "none"
  /\ p_pc = "idle"
  /\ p_stmt = 0
  /\ p_result = NoPoolResult
  /\ p_calls = 0

ParseIdle ==
  /\ ps_pc = "idle"
  /\ ps_events = <<>>
  /\ ps_stream = <<>>
  /\ ps_buffer = <<>>
  /\ ps_calls = <<>>
  /\ ps_partial = 0

LateIdle == ConcIdle /\ PoolIdle /\ ParseIdle

OtherIdle == ChunkIdle /\ SrcIdle /\ DelIdle /\ UplIdle /\ LateIdle

InitEmbed == EmbInit /\ StoreIdle /\ RetrIdle /\ ChatIdle /\ OtherIdle

SpecEmbed == InitEmbed /\ [][EmbNext]_vars

----------------------------------------------------------------------------
\* The database connection (pg client on PostgreSQL).  A query answers "ok",
\* "error" (the server rejects the statement, the connection stays usable) or
\* "lost" (the connection breaks: this and every later query on it fail).

QueryOutcomes == IF connAlive THEN {"ok", "error", "lost"} ELSE {"lost"}

\* Where an INSERT's row goes: into the open transaction, or, with no
\* transaction open, straight into the table (autocommit).
InsertRow(row) ==
  IF inTx
  THEN txRows' = txRows \cup {row} /\ UNCHANGED document_chunks
  ELSE document_chunks' = document_chunks \cup {row} /\ UNCHANGED txRows

----------------------------------------------------------------------------
\* lib/db/vector-store.ts: storeDocumentChunks

\* storeDocumentChunks without its BEGIN: some other harmless statement.
FirstStatement_NoBegin == "SELECT 1"

\* The first statement on the connection.
FirstStatement == "BEGIN"

Returned(ok, n) == [how |-> "returned", success |-> ok, vectorCount |-> n]

Threw == [how |-> "threw", success |-> FALSE, vectorCount |-> 0]

\* Entry: the empty-list guard and pool.connect() (outside the try block).
storeDocumentChunks(cs) ==
  /\ s_pc = "idle"
  /\ chunks' = cs
  /\ UNCHANGED <<s_i, storedCount, inTx, txRows, connAlive, document_chunks>>
  /\ IF Len(cs) = 0
     THEN /\ s_pc' = "done"
          /\ storeResult' = Returned(FALSE, 0)
          /\ UNCHANGED checkedOut
     ELSE \/ /\ s_pc' = "begin"            \* a client was acquired
             /\ checkedOut' = checkedOut + 1
             /\ UNCHANGED storeResult
          \/ /\ s_pc' = "done"             \* pool.connect() rejects
             /\ storeResult' = Threw
             /\ UNCHANGED checkedOut

\* client.query('BEGIN')
StoreBegin ==
  /\ s_pc = "begin"
  /\ \E q \in QueryOutcomes :
       /\ connAlive' = (q # "lost")
       /\ IF q = "ok"
          THEN s_pc' = "embed" /\ inTx' = (FirstStatement = "BEGIN")
          ELSE s_pc' = "catch" /\ inTx' = inTx
  /\ UNCHANGED <<chunks, s_i, storedCount, storeResult, txRows, document_chunks,
                 checkedOut>>

\* const embeddings = await generateEmbeddings(texts): the call
StoreEmbedCall ==
  /\ s_pc = "embed"
  /\ generateEmbeddings([k \in 1..Len(chunks) |-> chunks[k].content])
  /\ s_pc' = "embedding"
  /\ UNCHANGED <<chunks, s_i, storedCount, storeResult, inTx, txRows, connAlive,
                 document_chunks, checkedOut>>

\* ... its return, and the count check
StoreEmbedReturn ==
  /\ s_pc = "embedding"
  /\ e_pc = "done"
  /\ IF e_result = "error" \/ Len(embeddings) # Len(chunks)
     THEN s_pc' = "catch" /\ s_i' = s_i
     ELSE s_pc' = "insert" /\ s_i' = 1
  /\ UNCHANGED <<chunks, storedCount, storeResult, inTx, txRows, connAlive,
                 document_chunks, checkedOut>>

\* A pairing that takes the first vector for every chunk.
EmbeddingFor_First(i) == embeddings[1]

\* const embedding = embeddings[i]
EmbeddingFor(i) == embeddings[i]

\* One iteration of the INSERT loop
StoreInsert ==
  /\ s_pc = "insert"
  /\ \E q \in QueryOutcomes :
       /\ connAlive' = (q # "lost")
       /\ IF q = "ok"
          THEN /\ InsertRow([id |-> chunks[s_i].id,
                             document_id |-> chunks[s_i].documentId,
                             content |-> chunks[s_i].content,
                             embedding |-> EmbeddingFor(s_i)])
               /\ storedCount' = storedCount + 1
               /\ s_i' = s_i + 1
               /\ s_pc' = IF s_i + 1 <= Len(chunks) THEN "insert" ELSE "commit"
          ELSE /\ s_pc' = "catch"
               /\ UNCHANGED <<s_i, storedCount, txRows, document_chunks>>
  /\ UNCHANGED <<chunks, storeResult, inTx, checkedOut>>

\* client.query('COMMIT'), the return and the finally block.  A COMMIT whose
\* connection breaks may or may not have been applied by the server.
StoreCommit ==
  /\ s_pc = "commit"
  /\ \E q \in QueryOutcomes :
       /\ connAlive' = (q # "lost")
       /\ CASE q = "ok" ->
                 /\ document_chunks' = document_chunks \cup txRows
                 /\ txRows' = {}
                 /\ inTx' = FALSE
                 /\ s_pc' = "done"
                 /\ storeResult' = Returned(TRUE, storedCount)
                 /\ checkedOut' = checkedOut - 1
            [] q = "error" ->
                 /\ s_pc' = "catch"
                 /\ UNCHANGED <<document_chunks, txRows, inTx, storeResult, checkedOut>>
            [] q = "lost" ->
                 /\ s_pc' = "catch"
                 /\ \/ document_chunks' = document_chunks \cup txRows
                    \/ document_chunks' = document_chunks
                 /\ txRows' = {}
                 /\ inTx' = FALSE
                 /\ UNCHANGED <<storeResult, checkedOut>>
  /\ UNCHANGED <<chunks, s_i, storedCount>>

\* The catch block: client.query('ROLLBACK'), the return and the finally
\* block.  A ROLLBACK that fails throws out of the catch block; the server
\* discards the transaction of a broken connection.
StoreCatch ==
  /\ s_pc = "catch"
  /\ \E q \in QueryOutcomes :
       /\ connAlive' = (q # "lost")
       /\ storeResult' = IF q = "ok" THEN Returned(FALSE, 0) ELSE Threw
       /\ IF q = "error" THEN UNCHANGED <<txRows, inTx>>
          ELSE txRows' = {} /\ inTx' = FALSE
  /\ s_pc' = "done"
  /\ checkedOut' = checkedOut - 1
  /\ UNCHANGED <<chunks, s_i, storedCount, document_chunks>>

\* Inputs: the chunks of one document, and the rows stored before the call.

DocId == "doc_1"

MaxChunks == 3

MaxUpstream == 3

MkChunks(texts) ==
  [k \in 1..Len(texts) |-> [id |-> k, documentId |-> DocId, content |-> texts[k]]]

ChunkLists ==
  { MkChunks(MkTexts(n, {})) : n \in 0..MaxChunks \cup {batchSize + 1} } \cup
  { MkChunks(MkTexts(n, {2})) : n \in 2..MaxChunks }

OtherRow == [id |-> 0, document_id |-> "doc_0", content |-> 7,
             embedding |-> ProviderEmbed(7)]

StoreInit ==
  /\ chunks = <<>>
  /\ s_pc = "idle"
  /\ s_i = 0
  /\ storedCount = 0
  /\ storeResult = [how |-> "none", success |-> FALSE, vectorCount |-> 0]
  /\ inTx = FALSE
  /\ txRows = {}
  /\ connAlive = TRUE
  /\ document_chunks \in {{}, {OtherRow}}
  /\ checkedOut = 0

CallStoreDocumentChunks == \E cs \in ChunkLists : storeDocumentChunks(cs)

StoreNext ==
  \/ CallStoreDocumentChunks /\ UNCHANGED <<embVars, retrVars, chatVars, otherVars>>
  \/ StoreBegin /\ UNCHANGED <<embVars, retrVars, chatVars, otherVars>>
  \/ StoreEmbedCall /\ UNCHANGED <<retrVars, chatVars, otherVars>>
  \/ (s_pc = "embedding" /\ ProviderCall /\ UNCHANGED <<storeVars, retrVars, chatVars, otherVars>>)
  \/ (s_pc = "embedding" /\ SleepDone /\ UNCHANGED <<storeVars, retrVars, chatVars, otherVars>>)
  \/ StoreEmbedReturn /\ UNCHANGED <<embVars, retrVars, chatVars, otherVars>>
  \/ StoreInsert /\ UNCHANGED <<embVars, retrVars, chatVars, otherVars>>
  \/ StoreCommit /\ UNCHANGED <<embVars, retrVars, chatVars, otherVars>>
  \/ StoreCatch /\ UNCHANGED <<embVars, retrVars, chatVars, otherVars>>

InitStore == EmbInit /\ StoreInit /\ RetrIdle /\ ChatIdle /\ OtherIdle

SpecStore == InitStore /\ [][StoreNext]_vars

----------------------------------------------------------------------------
\* lib/retrieval: retrieveRelevantChunks
\*
\* Here a row of document_chunks is [id, county, document_title,
\* section_header, distance]; distance is the value of
\* `embedding <=> $1::vector` for this request's query vector, as the database
\* computes it, in tenths (12 stands for 1.2).

DEFAULT_TOP_K == 5
MAX_DISTANCE_THRESHOLD == 12

\* Object destructuring with a default: the default applies when the option
\* is absent.
Option(options, name, default) ==
  IF name \in options.has THEN options[name] ELSE default

\* JavaScript truthiness of options.county: absent and "" are falsy.
Truthy(options, name) == name \in options.has /\ options[name] # ""

\* A query that does not test the county: the filter is always skipped.
WhereClause_NoFilter(table, options) == table

\* The rows the statement built at `if (county)` selects from.
WhereClause(table, options) ==
  IF Truthy(options, "county")
  THEN { r \in table : r.county = options["county"] }
  ELSE table

Nearest(S) == { x \in S : \A y \in S : x.distance <= y.distance }

\* ORDER BY distance LIMIT k: every sequence the database may answer (rows at
\* equal distance come in any order).
RECURSIVE OrderByLimit(_, _)
OrderByLimit(S, k) ==
  IF k = 0 \/ S = {} THEN { <<>> }
  ELSE UNION { { <<r>> \o t : t \in OrderByLimit(S \ {r}, k - 1) } : r \in Nearest(S) }

\* A threshold test that drops rows exactly at the threshold.
WithinThreshold_Strict(distance, minDistance) == distance < minDistance

\* .filter(row => row.distance <= minDistance)
WithinThreshold(distance, minDistance) == distance <= minDistance

RetrievedChunk(row) ==
  [id |-> row.id, county |-> row.county, documentTitle |-> row.document_title,
   sectionHeader |-> row.section_header, distance |-> row.distance]

FilterAndMap(rows, minDistance) ==
  LET kept == SelectSeq(rows, LAMBDA row : WithinThreshold(row.distance, minDistance))
  IN [k \in 1..Len(kept) |-> RetrievedChunk(kept[k])]

RetrReturned(rows) == [how |-> "returned", rows |-> rows]

RetrThrew == [how |-> "threw", rows |-> <<>>]

\* A retriever that answers a failure with an empty list.
SearchFailed_ReturnsEmpty == [how |-> "returned", rows |-> <<>>]

\* The catch block: the error is rethrown as 'Failed to search documents'.
SearchFailed == RetrThrew

\* Entry: the blank-query guard, then generateEmbedding(query).
retrieveRelevantChunks(query, options) ==
  /\ r_pc = "idle"
  /\ r_query' = query
  /\ r_options' = options
  /\ r_failure' = r_failure
  /\ IF IsBlank(query)
     THEN /\ r_pc' = "done"
          /\ r_result' = RetrThrew
          /\ UNCHANGED embVars
     ELSE /\ r_pc' = "embedding"
          /\ r_result' = r_result
          /\ generateEmbedding(query)

\* generateEmbedding returns or throws; a throw is rethrown by the catch block.
RetrieveEmbedReturn ==
  /\ r_pc = "embedding"
  /\ e_pc = "done"
  /\ IF e_result = "ok"
     THEN r_pc' = "connect" /\ UNCHANGED <<r_result, r_failure>>
     ELSE r_pc' = "done" /\ r_result' = SearchFailed /\ r_failure' = "embedding"
  /\ UNCHANGED <<r_query, r_options>>

\* const client = await pool.connect()
RetrieveConnect ==
  /\ r_pc = "connect"
  /\ \/ /\ r_pc' = "set"
        /\ checkedOut' = checkedOut + 1
        /\ connAlive' = TRUE
        /\ UNCHANGED <<r_result, r_failure>>
     \/ /\ r_pc' = "done"
        /\ r_result' = SearchFailed
        /\ r_failure' = "connect"
        /\ UNCHANGED <<checkedOut, connAlive>>
  /\ UNCHANGED <<r_query, r_options>>

\* await client.query('SET LOCAL enable_indexscan = off')
RetrieveSetLocal ==
  /\ r_pc = "set"
  /\ \E q \in QueryOutcomes :
       /\ connAlive' = (q # "lost")
       /\ IF q = "ok"
          THEN r_pc' = "select" /\ UNCHANGED <<r_result, r_failure, checkedOut>>
          ELSE /\ r_pc' = "done"
               /\ r_result' = SearchFailed
               /\ r_failure' = "query"
               /\ checkedOut' = checkedOut - 1
  /\ UNCHANGED <<r_query, r_options>>

\* result = await client.query(sqlQuery, queryParams), the finally block, the
\* threshold filter and the return.
RetrieveSelect ==
  /\ r_pc = "select"
  /\ \E q \in QueryOutcomes :
       /\ connAlive' = (q # "lost")
       /\ IF q = "ok"
          THEN /\ \E rows \in OrderByLimit(WhereClause(document_chunks, r_options),
                                           Option(r_options, "topK", DEFAULT_TOP_K)) :
                    r_result' = RetrReturned(
                      FilterAndMap(rows, Option(r_options, "minDistance",
                                                MAX_DISTANCE_THRESHOLD)))
               /\ r_failure' = r_failure
          ELSE r_result' = SearchFailed /\ r_failure' = "query"
  /\ r_pc' = "done"
  /\ checkedOut' = checkedOut - 1
  /\ UNCHANGED <<r_query, r_options>>

\* Inputs: the stored rows, the query and the options.

Row(id, county, section, distance) ==
  [id |-> id, county |-> county, document_title |-> "Guide",
   section_header |-> section, distance |-> distance]

RowUniverse ==
  { Row(1, "Boulder", "Redemption", 3),
    Row(2, "Denver", "Redemption", 3),
    Row(3, "Boulder", "Fees", 12),
    Row(4, "Boulder", "Redemption", 13) }

Tables == SUBSET RowUniverse

OptionSets ==
  { o \in [has : SUBSET {"topK", "county", "minDistance"},
           topK : {0, 1, 2},
           county : {"", "Boulder", "Weld"},
           minDistance : {0, 3}] :
      /\ "topK" \notin o.has => o.topK = 0
      /\ "county" \notin o.has => o.county = ""
      /\ "minDistance" \notin o.has => o.minDistance = 0 }

QueryTexts == {0, 1}

RetrInit ==
  /\ r_pc = "idle"
  /\ r_query = 0
  /\ r_options = NoOptions
  /\ r_result = [how |-> "none", rows |-> <<>>]
  /\ r_failure = "none"

StoreAtRest ==
  /\ chunks = <<>>
  /\ s_pc = "idle"
  /\ s_i = 0
  /\ storedCount = 0
  /\ storeResult = [how |-> "none", success |-> FALSE, vectorCount |-> 0]
  /\ inTx = FALSE
  /\ txRows = {}
  /\ connAlive = TRUE
  /\ checkedOut = 0

CallRetrieveRelevantChunks ==
  \E query \in QueryTexts, options \in OptionSets :
    retrieveRelevantChunks(query, options)

RetrNext ==
  \/ CallRetrieveRelevantChunks /\ UNCHANGED <<dbVars, writeVars, chatVars, otherVars>>
  \/ (r_pc = "embedding" /\ ProviderCall
        /\ UNCHANGED <<retrVars, dbVars, writeVars, chatVars, otherVars>>)
  \/ (r_pc = "embedding" /\ SleepDone
        /\ UNCHANGED <<retrVars, dbVars, writeVars, chatVars, otherVars>>)
  \/ RetrieveEmbedReturn /\ UNCHANGED <<embVars, dbVars, writeVars, chatVars, otherVars>>
  \/ RetrieveConnect /\ UNCHANGED <<embVars, writeVars, chatVars, otherVars>>
  \/ RetrieveSetLocal /\ UNCHANGED <<embVars, writeVars, chatVars, otherVars>>
  \/ RetrieveSelect /\ UNCHANGED <<embVars, writeVars, chatVars, otherVars>>

InitRetrieve ==
  /\ EmbInit
  /\ StoreAtRest
  /\ document_chunks \in Tables
  /\ RetrInit
  /\ ChatIdle
  /\ OtherIdle

SpecRetrieve == InitRetrieve /\ [][RetrNext]_vars

----------------------------------------------------------------------------
\* Strings.  Where the code takes strings apart or puts them together, a
\* string is a sequence of atoms: " " is one space, any other atom is a piece
\* of text without spaces.

Sentence(words) ==
  [k \in 1..(2 * Len(words) - 1) |-> IF k % 2 = 1 THEN words[(k + 1) \div 2] ELSE " "]

\* The atoms of the names the model uses.
Atoms(str) ==
  CASE str = "" -> <<>>
    [] str = "El Paso" -> <<"El", " ", "Paso">>
    [] str = "Weld|A" -> <<"Weld", "|", "A">>
    [] str = "A|Guide" -> <<"A", "|", "Guide">>
    [] OTHER -> <<str>>

\* str.trim().length === 0
IsBlankString(str) == \A k \in 1..Len(str) : str[k] = " "

RECURSIVE Flatten(_)
Flatten(seqs) == IF seqs = <<>> THEN <<>> ELSE Head(seqs) \o Flatten(Tail(seqs))

\* str.split(' '): the pieces between single spaces (empty pieces included).
RECURSIVE Split(_)
Split(str) ==
  IF \A k \in 1..Len(str) : str[k] # " " THEN << str >>
  ELSE LET k == CHOOSE j \in 1..Len(str) :
                  str[j] = " " /\ \A m \in 1..(j - 1) : str[m] # " "
       IN << SubSeq(str, 1, k - 1) >> \o Split(SubSeq(str, k + 1, Len(str)))

----------------------------------------------------------------------------
\* lib/retrieval: extractSources

\* An extractSources whose key is the chunk's id.
SourceKey_ById(chunk) == << chunk.id >>

\* `${chunk.county}|${chunk.documentTitle}|${chunk.sectionHeader || ''}`
SourceKey(chunk) ==
  Atoms(chunk.county) \o <<"|">> \o Atoms(chunk.documentTitle) \o <<"|">>
    \o Atoms(chunk.sectionHeader)

\* The Map's values in insertion order: a chunk adds an entry when its key is
\* not in the map yet.
RECURSIVE ExtractFrom(_, _, _)
ExtractFrom(cs, keys, acc) ==
  IF cs = <<>> THEN acc
  ELSE IF SourceKey(Head(cs)) \in keys
       THEN ExtractFrom(Tail(cs), keys, acc)
       ELSE ExtractFrom(Tail(cs), keys \cup {SourceKey(Head(cs))},
                        Append(acc, [county |-> Head(cs).county,
                                     documentTitle |-> Head(cs).documentTitle,
                                     section |-> Head(cs).sectionHeader]))

extractSources(cs) == ExtractFrom(cs, {}, <<>>)

\* formatContextForLLM(chunks) is '' exactly when there are no chunks;
\* otherwise it starts with a fixed header line.
ContextIsEmpty(cs) == Len(cs) = 0

----------------------------------------------------------------------------
\* app/api/chat/route.ts: POST, and lib/answer-generation: generateAnswer

TokenEvent(content) == [type |-> "token", content |-> content]

CompleteEvent == [type |-> "complete"]

MetadataEvent(srcs, n) == [type |-> "metadata", sources |-> srcs, chunksUsed |-> n]

\* body.county is truthy
CountyGiven(b) == b.hasCounty /\ b.county # ""

noResultsMessage(query, b) ==
  IF CountyGiven(b)
  THEN Sentence(<<"I", "couldn't", "find", "any", "relevant", "information", "about">>)
       \o <<" ", "\"">> \o query \o <<"\"", " ">>
       \o Sentence(<<"in", "the", "uploaded", "documents", "from">>)
       \o <<" ">> \o Atoms(b.county) \o <<" ">>
       \o Sentence(<<"County.", "You", "may", "need", "to", "upload">>)
       \o <<" ">> \o Atoms(b.county) \o <<" ">>
       \o Sentence(<<"County", "tax", "lien", "guidelines", "or", "try",
                     "searching", "without", "the", "county", "filter.">>)
  ELSE Sentence(<<"I", "couldn't", "find", "any", "relevant", "information", "about">>)
       \o <<" ", "\"">> \o query \o <<"\"", " ">>
       \o Sentence(<<"in", "the", "uploaded", "documents.", "You", "may", "need",
                     "to", "upload", "tax", "lien", "guidelines", "from", "the",
                     "relevant", "county.">>)

\* tokens.forEach: the first token as it is, every later one after a space
NoResultsEvents(message) ==
  LET tokens == Split(message) IN
  [k \in 1..Len(tokens) |->
     TokenEvent(IF k = 1 THEN tokens[k] ELSE <<" ">> \o tokens[k])]

\* A route that never takes the no-results branch.
NoChunks_Never(cs) == FALSE

\* if (!chunks || chunks.length === 0)
NoChunks(cs) == Len(cs) = 0

\* A generateAnswer whose stream ends without the completion signal.
InnerEndEvents_None == <<>>

\* What generateAnswer enqueues when the model's stream has ended.
InnerEndEvents == << CompleteEvent >>

\* A generateAnswer whose catch block closes the stream.
InnerOnError_Close == "close"

\* generateAnswer's catch block: controller.error(error)
InnerOnError == "error"

\* The text a query embeds as: blank messages never get that far.
QueryText(message) == IF IsBlankString(message) THEN 0 ELSE 1

RouteOptions(b) ==
  [has |-> IF b.hasCounty THEN {"county", "topK"} ELSE {"topK"},
   topK |-> 5, county |-> b.county, minDistance |-> 0]

\* The model's answer as the SDK hands it over: the content of each chunk
\* ("" for a chunk without content), then the end of the stream or a failure.
Upstreams ==
  { [items |-> it, ending |-> e] :
      it \in UNION { [1..n -> {"", "tok"}] : n \in 0..MaxUpstream },
      e \in {"end", "error"} }

Json(status) == [kind |-> "json", status |-> status]

\* POST: request.json(), the message validation, the call of
\* retrieveRelevantChunks.
ChatPost(b) ==
  /\ c_pc = "idle"
  /\ body' = b
  /\ IF ~b.valid \/ IsBlankString(b.message)
     THEN /\ c_pc' = "done"
          /\ response' = Json(400)
          /\ UNCHANGED <<embVars, retrVars>>
     ELSE /\ c_pc' = "retrieving"
          /\ response' = response
          /\ retrieveRelevantChunks(QueryText(b.message), RouteOptions(b))
  /\ UNCHANGED <<llmCalls, upstream, pulled, i_pc, i_state, i_queue, i_closed,
                 o_pc, o_state, sent, sources, pulledAtCancel>>

\* retrieveRelevantChunks has returned or thrown: the 500 answer, the
\* no-results stream, or generateAnswer up to its call of the model.
ChatAfterRetrieval ==
  /\ c_pc = "retrieving"
  /\ r_pc = "done"
  /\ IF r_result.how = "threw"
     THEN /\ c_pc' = "done"
          /\ response' = Json(500)
          /\ UNCHANGED <<o_state, sent>>
     ELSE IF NoChunks(r_result.rows)
     THEN /\ c_pc' = "done"
          /\ response' = [kind |-> "stream", status |-> 200]
          /\ sent' = NoResultsEvents(noResultsMessage(body.message, body))
                       \o << CompleteEvent, MetadataEvent(<<>>, 0) >>
          /\ o_state' = "closed"
     ELSE IF ContextIsEmpty(r_result.rows)
     THEN \* generateAnswer throws 'Context cannot be empty'
          /\ c_pc' = "done"
          /\ response' = Json(500)
          /\ UNCHANGED <<o_state, sent>>
     ELSE /\ c_pc' = "creating"
          /\ UNCHANGED <<response, o_state, sent>>
  /\ UNCHANGED <<body, llmCalls, upstream, pulled, i_pc, i_state, i_queue,
                 i_closed, o_pc, sources, pulledAtCancel>>

\* openai.chat.completions.create answers: an error (the 500 answer), or the
\* model's stream; then both ReadableStreams are built and the response is
\* returned.
ChatCreate ==
  /\ c_pc = "creating"
  /\ llmCalls' = llmCalls + 1
  /\ \/ /\ c_pc' = "done"
        /\ response' = Json(500)
        /\ UNCHANGED <<upstream, i_pc, o_pc, sources>>
     \/ \E u \in Upstreams :
          /\ upstream' = u
          /\ i_pc' = "pulling"
          /\ sources' = extractSources(r_result.rows)
          /\ o_pc' = "reading"
          /\ c_pc' = "streaming"
          /\ response' = [kind |-> "stream", status |-> 200]
  /\ UNCHANGED <<body, pulled, i_state, i_queue, i_closed, o_state, sent,
                 pulledAtCancel>>

\* generateAnswer's start(): one turn of `for await (const chunk of response)`
\* and, when the model's stream has ended or failed, the code after the loop
\* or the catch block.  Nothing ever cancels this stream, so its enqueue and
\* close never throw.
InnerPull ==
  /\ i_pc = "pulling"
  /\ IF pulled < Len(upstream.items)
     THEN /\ pulled' = pulled + 1
          /\ i_queue' = IF upstream.items[pulled + 1] # ""
                        THEN Append(i_queue, TokenEvent(upstream.items[pulled + 1]))
                        ELSE i_queue
          /\ UNCHANGED <<i_pc, i_state, i_closed>>
     ELSE /\ i_pc' = "finished"
          /\ pulled' = pulled
          /\ IF upstream.ending = "end"
             THEN /\ i_queue' = i_queue \o InnerEndEvents
                  /\ i_closed' = TRUE
                  /\ i_state' = i_state
             ELSE IF InnerOnError = "error"
             THEN /\ i_state' = "errored"
                  /\ i_queue' = <<>>
                  /\ i_closed' = i_closed
             ELSE /\ i_closed' = TRUE
                  /\ UNCHANGED <<i_queue, i_state>>
  /\ UNCHANGED <<c_pc, body, response, llmCalls, upstream, o_pc, o_state, sent,
                 sources, pulledAtCancel>>

\* The route's start(): one turn of its read loop.  reader.read() gives the
\* next queued chunk, done when the inner stream is closed and drained, or
\* rejects when it is errored.  controller.enqueue throws on a stream that is
\* no longer readable; the catch block's controller.error is then a no-op.
OuterRead ==
  /\ o_pc = "reading"
  /\ IF i_state = "errored"
     THEN /\ o_pc' = "finished"
          /\ o_state' = IF o_state = "readable" THEN "errored" ELSE o_state
          /\ UNCHANGED <<i_queue, sent>>
     ELSE IF i_queue # <<>>
     THEN /\ i_queue' = Tail(i_queue)
          /\ IF o_state = "readable"
             THEN /\ sent' = Append(sent, Head(i_queue))
                  /\ UNCHANGED <<o_pc, o_state>>
             ELSE /\ o_pc' = "finished"
                  /\ UNCHANGED <<sent, o_state>>
     ELSE /\ i_closed
          /\ o_pc' = "finished"
          /\ i_queue' = i_queue
          /\ IF o_state = "readable"
             THEN /\ sent' = Append(sent, MetadataEvent(sources, Len(r_result.rows)))
                  /\ o_state' = "closed"
             ELSE UNCHANGED <<sent, o_state>>
  /\ UNCHANGED <<c_pc, body, response, llmCalls, upstream, pulled, i_pc, i_state,
                 i_closed, sources, pulledAtCancel>>

\* The client goes away: the runtime cancels the response stream.  Its
\* underlying source has no cancel() callback.
ClientDisconnect ==
  /\ c_pc = "streaming"
  /\ o_state = "readable"
  /\ o_state' = "cancelled"
  /\ pulledAtCancel' = pulled
  /\ UNCHANGED <<c_pc, body, response, llmCalls, upstream, pulled, i_pc, i_state,
                 i_queue, i_closed, o_pc, sent, sources>>

\* Inputs: the request body, the stored rows, the model's stream.

Messages == { <<>>, <<" ">>, <<"redemption">>, <<"tax", " ", " ", "lien">> }

Bodies ==
  { NoBody }
    \cup { [valid |-> TRUE, message |-> m, hasCounty |-> FALSE, county |-> ""] :
              m \in Messages }
    \cup { [valid |-> TRUE, message |-> m, hasCounty |-> TRUE, county |-> c] :
              m \in Messages, c \in {"", "Boulder", "El Paso"} }

ChatTables ==
  { {},
    { Row(2, "Denver", "Redemption", 3) },
    { Row(1, "Boulder", "Redemption", 3), Row(3, "Boulder", "Fees", 12),
      Row(4, "Boulder", "Redemption", 13) } }

CallChatPost == \E b \in Bodies : ChatPost(b)

ChatNext ==
  \/ CallChatPost /\ UNCHANGED <<dbVars, writeVars, otherVars>>
  \/ (r_pc = "embedding" /\ ProviderCall
        /\ UNCHANGED <<retrVars, dbVars, writeVars, chatVars, otherVars>>)
  \/ (r_pc = "embedding" /\ SleepDone
        /\ UNCHANGED <<retrVars, dbVars, writeVars, chatVars, otherVars>>)
  \/ RetrieveEmbedReturn /\ UNCHANGED <<embVars, dbVars, writeVars, chatVars, otherVars>>
  \/ RetrieveConnect /\ UNCHANGED <<embVars, writeVars, chatVars, otherVars>>
  \/ RetrieveSetLocal /\ UNCHANGED <<embVars, writeVars, chatVars, otherVars>>
  \/ RetrieveSelect /\ UNCHANGED <<embVars, writeVars, chatVars, otherVars>>
  \/ ChatAfterRetrieval /\ UNCHANGED <<embVars, storeVars, retrVars, otherVars>>
  \/ ChatCreate /\ UNCHANGED <<embVars, storeVars, retrVars, otherVars>>
  \/ InnerPull /\ UNCHANGED <<embVars, storeVars, retrVars, otherVars>>
  \/ OuterRead /\ UNCHANGED <<embVars, storeVars, retrVars, otherVars>>
  \/ ClientDisconnect /\ UNCHANGED <<embVars, storeVars, retrVars, otherVars>>

InitChat ==
  /\ EmbInit
  /\ StoreAtRest
  /\ document_chunks \in ChatTables
  /\ RetrInit
  /\ ChatIdle
  /\ OtherIdle

SpecChat == InitChat /\ [][ChatNext]_vars

----------------------------------------------------------------------------
\* Text with lengths.  Where the code measures and slices text, a string is a
\* sequence of runs [s, a, b]: the characters a..b (1-based, inclusive) of the
\* source text s.  Different sources share no text; the sources "\n", " " and
\* "#" consist of one repeated character, and a run of such a source is kept
\* as [s, 1, count].  Strings are kept canonical (adjacent runs that continue
\* each other are merged), so two strings are equal exactly when their run
\* sequences are.

Run(s, a, b) == [s |-> s, a |-> a, b |-> b]

Uniform(s) == s \in {"\n", " ", "#"}

RunLen(r) == r.b - r.a + 1

RECURSIVE StrLen(_)
StrLen(x) == IF x = <<>> THEN 0 ELSE RunLen(Head(x)) + StrLen(Tail(x))

\* x + y
Cat(x, y) ==
  IF x = <<>> THEN y
  ELSE IF y = <<>> THEN x
  ELSE LET l == x[Len(x)]
           f == y[1]
       IN IF l.s = f.s /\ Uniform(l.s)
          THEN SubSeq(x, 1, Len(x) - 1) \o << Run(l.s, 1, RunLen(l) + RunLen(f)) >>
                 \o Tail(y)
          ELSE IF l.s = f.s /\ l.b + 1 = f.a
          THEN SubSeq(x, 1, Len(x) - 1) \o << Run(l.s, l.a, f.b) >> \o Tail(y)
          ELSE x \o y

RECURSIVE CatAll(_)
CatAll(xs) == IF xs = <<>> THEN <<>> ELSE Cat(Head(xs), CatAll(Tail(xs)))

Newlines(n) == << Run("\n", 1, n) >>

\* xs.join(sep)
RECURSIVE Join(_, _)
Join(xs, sep) ==
  IF xs = <<>> THEN <<>>
  ELSE IF Len(xs) = 1 THEN xs[1]
  ELSE Cat(Cat(xs[1], sep), Join(Tail(xs), sep))

\* x.slice(-n), for n > 0
RECURSIVE SliceLast(_, _)
SliceLast(x, n) ==
  IF x = <<>> THEN <<>>
  ELSE LET l == x[Len(x)] IN
       IF RunLen(l) >= n
       THEN << IF Uniform(l.s) THEN Run(l.s, 1, n) ELSE Run(l.s, l.b - n + 1, l.b) >>
       ELSE SliceLast(SubSeq(x, 1, Len(x) - 1), n - RunLen(l)) \o << l >>

\* x.slice(0, n)
RECURSIVE SliceFirst(_, _)
SliceFirst(x, n) ==
  IF x = <<>> \/ n <= 0 THEN <<>>
  ELSE LET f == x[1] IN
       IF RunLen(f) >= n
       THEN << IF Uniform(f.s) THEN Run(f.s, 1, n) ELSE Run(f.s, f.a, f.a + n - 1) >>
       ELSE << f >> \o SliceFirst(Tail(x), n - RunLen(f))

\* The number of whitespace characters a source text begins with: a sentence
\* that follows another one in its paragraph begins with the space between
\* them, or with a long run of spaces.
LeadingSpaces(s) ==
  CASE s = "x2" -> 1
    [] s = "w2" -> 999
    [] OTHER -> 0

IsWhitespace(r) == r.s \in {"\n", " "} \/ r.b <= LeadingSpaces(r.s)

RECURSIVE TrimStart(_)
TrimStart(x) ==
  IF x = <<>> THEN <<>>
  ELSE LET f == x[1] IN
       IF IsWhitespace(f) THEN TrimStart(Tail(x))
       ELSE IF f.a <= LeadingSpaces(f.s)
       THEN << Run(f.s, LeadingSpaces(f.s) + 1, f.b) >> \o Tail(x)
       ELSE x

RECURSIVE TrimEnd(_)
TrimEnd(x) ==
  IF x = <<>> THEN <<>>
  ELSE IF IsWhitespace(x[Len(x)]) THEN TrimEnd(SubSeq(x, 1, Len(x) - 1))
  ELSE x

\* x.trim()
Trim(x) == TrimEnd(TrimStart(x))

\* x.split("\n"): a run of n newlines ends the current line and is followed by
\* n - 1 empty lines.
RECURSIVE SplitLinesFrom(_, _)
SplitLinesFrom(x, line) ==
  IF x = <<>> THEN << line >>
  ELSE IF x[1].s = "\n"
  THEN << line >> \o [k \in 1..(RunLen(x[1]) - 1) |-> <<>>]
         \o SplitLinesFrom(Tail(x), <<>>)
  ELSE SplitLinesFrom(Tail(x), line \o << x[1] >>)

SplitLines(x) == SplitLinesFrom(x, <<>>)

\* x.split(/\n\n+/): the pieces between runs of two or more newlines.
RECURSIVE SplitBlankFrom(_, _)
SplitBlankFrom(x, piece) ==
  IF x = <<>> THEN << piece >>
  ELSE IF x[1].s = "\n" /\ RunLen(x[1]) >= 2
  THEN << piece >> \o SplitBlankFrom(Tail(x), <<>>)
  ELSE SplitBlankFrom(Tail(x), piece \o << x[1] >>)

SplitBlank(x) == SplitBlankFrom(x, <<>>)

----------------------------------------------------------------------------
\* lib/constants: RAG_CONFIG (chunking)

CHUNK_SIZE == 1000

CHUNK_OVERLAP == 200

MIN_CHUNK_SIZE == 200

----------------------------------------------------------------------------
\* lib/md-processor: parseMarkdownStructure

Undefined == <<>>

\* line.match(/^#{level}\s+(.+)$/)
IsHeader(line, level) ==
  /\ Len(line) >= 3
  /\ line[1] = Run("#", 1, level)
  /\ line[2].s = " "

\* The level of a header line, or 0; "###" is tried first, then "##", "#".
HeaderLevel(line) ==
  IF IsHeader(line, 3) THEN 3
  ELSE IF IsHeader(line, 2) THEN 2
  ELSE IF IsHeader(line, 1) THEN 1
  ELSE 0

\* match[1].trim()
HeaderTitle(line) == Trim(SubSeq(line, 3, Len(line)))

\* First pass: the indices (1-based) of the header lines, in order.
HeaderLines(lines) ==
  LET idx == { k \in 1..Len(lines) : HeaderLevel(lines[k]) > 0 }
      nth[n \in 0..Cardinality(idx)] ==
        IF n = 0 THEN 0
        ELSE CHOOSE k \in idx : k > nth[n - 1] /\ \A j \in idx : j > nth[n - 1] => k <= j
  IN [n \in 1..Cardinality(idx) |-> nth[n]]

\* Second pass: one section per header whose content is not empty.
parseMarkdownStructure(content) ==
  LET lines == SplitLines(content)
      hs == HeaderLines(lines)
      SectionAt(n) ==
        LET startLine == hs[n] + 1
            endLine == IF n < Len(hs) THEN hs[n + 1] - 1 ELSE Len(lines)
        IN [level |-> HeaderLevel(lines[hs[n]]),
            title |-> HeaderTitle(lines[hs[n]]),
            content |-> Trim(Join(SubSeq(lines, startLine, endLine), Newlines(1)))]
      all == [n \in 1..Len(hs) |-> SectionAt(n)]
  IN SelectSeq(all, LAMBDA sec : StrLen(sec.content) > 0)

----------------------------------------------------------------------------
\* lib/md-processor: splitOnSentences, splitOnParagraphs

\* text.match(/[^.!?]+[.!?]+|\n+|[^.!?\n]+$/g): every source text is one
\* sentence (it ends with its punctuation), every run of newlines a match of
\* its own.
Sentences(text) == [k \in 1..Len(text) |-> << text[k] >>]

RECURSIVE SentenceLoop(_, _, _, _)
SentenceLoop(sentences, acc, currentChunk, maxSize) ==
  IF sentences = <<>>
  THEN IF StrLen(Trim(currentChunk)) > 0 THEN Append(acc, Trim(currentChunk)) ELSE acc
  ELSE LET sentence == Head(sentences) IN
       IF StrLen(currentChunk) + StrLen(sentence) > maxSize /\ StrLen(currentChunk) > 0
       THEN SentenceLoop(Tail(sentences), Append(acc, Trim(currentChunk)), sentence, maxSize)
       ELSE SentenceLoop(Tail(sentences), acc, Cat(currentChunk, sentence), maxSize)

splitOnSentences(text, maxSize) == SentenceLoop(Sentences(text), <<>>, <<>>, maxSize)

RECURSIVE ParagraphLoop(_, _, _)
ParagraphLoop(paragraphs, acc, maxSize) ==
  IF paragraphs = <<>> THEN acc
  ELSE LET paragraph == Head(paragraphs)
           rest == Tail(paragraphs)
       IN IF StrLen(Trim(paragraph)) = 0
          THEN ParagraphLoop(rest, acc, maxSize)
          ELSE IF StrLen(paragraph) > maxSize
          THEN ParagraphLoop(rest, acc \o splitOnSentences(paragraph, maxSize), maxSize)
          ELSE IF Len(acc) > 0 /\ StrLen(acc[Len(acc)]) + StrLen(paragraph) < maxSize
          THEN ParagraphLoop(rest,
                 [acc EXCEPT ![Len(acc)] = Cat(Cat(@, Newlines(2)), paragraph)], maxSize)
          ELSE ParagraphLoop(rest, Append(acc, paragraph), maxSize)

splitOnParagraphs(text, maxSize) == ParagraphLoop(SplitBlank(text), <<>>, maxSize)

----------------------------------------------------------------------------
\* lib/md-processor: chunkMarkdownDocument, processMarkdownDocument
\*
\* A chunk is [content, chunkIndex, totalChunks, sectionHeader,
\* subsectionHeader] and, as history, raw (its content before the overlap
\* prefix was put in front), section (the number of its section in
\* parseMarkdownStructure's list, 0 when the document has no sections) and
\* piece (its number among the section's text chunks).

\* A fixed piece of text of n characters.
Literal(name, n) == << Run(name, 1, n) >>

\* `[Context: ${currentH2} > ${section.title}]\n\n` or
\* `[Context: ${section.title}]\n\n`
contextPrefix(section, currentH2) ==
  IF section.level = 3
  THEN CatAll(<< Literal("[Context: ", 10), currentH2, Literal(" > ", 3),
                 section.title, Literal("]", 1), Newlines(2) >>)
  ELSE CatAll(<< Literal("[Context: ", 10), section.title, Literal("]", 1),
                 Newlines(2) >>)

\* The no-sections path: textChunks.forEach
RECURSIVE PlainLoop(_, _, _, _)
PlainLoop(textChunks, index, acc, previousChunkEnd) ==
  IF index >= Len(textChunks) THEN acc
  ELSE LET chunkContent == textChunks[index + 1]
           contentWithOverlap ==
             IF index > 0 THEN Cat(previousChunkEnd, chunkContent) ELSE chunkContent
       IN PlainLoop(textChunks, index + 1,
            Append(acc, [content |-> contentWithOverlap,
                         chunkIndex |-> index,
                         totalChunks |-> Len(textChunks),
                         sectionHeader |-> Undefined,
                         subsectionHeader |-> Undefined,
                         raw |-> chunkContent, section |-> 0, piece |-> index]),
            SliceLast(chunkContent, CHUNK_OVERLAP))

\* The loop's variables after the section was handled as one chunk.
WholeSection(section, n, st) ==
  LET labelled == st.isFirstChunkOfSection /\ st.currentH2 # Undefined
      chunkContent == IF labelled
                      THEN Cat(contextPrefix(section, st.currentH2), section.content)
                      ELSE section.content
      contentWithOverlap == IF Len(st.chunks) > 0
                            THEN Cat(st.previousChunkEnd, chunkContent)
                            ELSE chunkContent
  IN [st EXCEPT
        !.chunks = Append(@, [content |-> contentWithOverlap,
                              chunkIndex |-> Len(st.chunks),
                              totalChunks |-> 0,
                              sectionHeader |-> IF section.level = 2 THEN section.title
                                                ELSE st.currentH2,
                              subsectionHeader |-> IF section.level = 3 THEN section.title
                                                   ELSE Undefined,
                              raw |-> chunkContent, section |-> n, piece |-> 0]),
        !.previousChunkEnd = SliceLast(section.content, CHUNK_OVERLAP),
        !.isFirstChunkOfSection = FALSE]

\* Skip chunks that are too small (unless it's the only chunk).
Keep(contentWithOverlap, textChunks) ==
  StrLen(contentWithOverlap) >= MIN_CHUNK_SIZE \/ Len(textChunks) = 1

\* The split path: textChunks.forEach
RECURSIVE SplitLoop(_, _, _, _, _)
SplitLoop(section, n, textChunks, index, st) ==
  IF index >= Len(textChunks) THEN st
  ELSE LET labelled == index = 0 /\ st.isFirstChunkOfSection /\ st.currentH2 # Undefined
           chunkContent == IF labelled
                           THEN Cat(contextPrefix(section, st.currentH2),
                                    textChunks[index + 1])
                           ELSE textChunks[index + 1]
           contentWithOverlap == IF Len(st.chunks) > 0 \/ index > 0
                                 THEN Cat(st.previousChunkEnd, chunkContent)
                                 ELSE chunkContent
           kept == Keep(contentWithOverlap, textChunks)
           pushed ==
             IF kept
             THEN [st EXCEPT
                     !.chunks = Append(@, [content |-> contentWithOverlap,
                                           chunkIndex |-> Len(st.chunks),
                                           totalChunks |-> 0,
                                           sectionHeader |->
                                             IF section.level = 2 THEN section.title
                                             ELSE st.currentH2,
                                           subsectionHeader |->
                                             IF section.level = 3 THEN section.title
                                             ELSE Undefined,
                                           raw |-> chunkContent, section |-> n,
                                           piece |-> index]),
                     !.previousChunkEnd = SliceLast(chunkContent, CHUNK_OVERLAP)]
             ELSE st
       IN SplitLoop(section, n, textChunks, index + 1,
                    IF index = 0 THEN [pushed EXCEPT !.isFirstChunkOfSection = FALSE]
                    ELSE pushed)

\* sections.forEach
RECURSIVE SectionLoop(_, _, _)
SectionLoop(sections, n, st) ==
  IF n > Len(sections) THEN st
  ELSE LET section == sections[n]
           tracked == IF section.level = 2
                      THEN [st EXCEPT !.currentH2 = section.title,
                                      !.isFirstChunkOfSection = TRUE]
                      ELSE st
       IN SectionLoop(sections, n + 1,
            IF StrLen(section.content) <= CHUNK_SIZE
            THEN WholeSection(section, n, tracked)
            ELSE SplitLoop(section, n, splitOnParagraphs(section.content, CHUNK_SIZE),
                           0, tracked))

\* A document processor that leaves totalChunks as the loop wrote it.
UpdateTotalChunks_Skipped(cs) == cs

\* Update totalChunks for all chunks: chunks.forEach
UpdateTotalChunks(cs) ==
  [k \in 1..Len(cs) |-> [cs[k] EXCEPT !.chunkIndex = k - 1, !.totalChunks = Len(cs)]]

chunkMarkdownDocument(content) ==
  LET sections == parseMarkdownStructure(content) IN
  IF Len(sections) = 0
  THEN PlainLoop(splitOnParagraphs(content, CHUNK_SIZE), 0, <<>>, <<>>)
  ELSE UpdateTotalChunks(
         SectionLoop(sections, 1,
                     [chunks |-> <<>>, previousChunkEnd |-> <<>>,
                      currentH2 |-> Undefined,
                      isFirstChunkOfSection |-> TRUE]).chunks)

Chunked(cs) == [how |-> "returned", chunks |-> cs]

ChunkingThrew == [how |-> "threw", chunks |-> <<>>]

processMarkdownDocument(fileContent) ==
  /\ ck_result = NoChunking
  /\ document' = fileContent
  /\ ck_result' = IF StrLen(Trim(fileContent)) = 0
                  THEN ChunkingThrew
                  ELSE Chunked(chunkMarkdownDocument(fileContent))

\* Inputs: documents made of paragraphs and header lines, separated by blank
\* lines.

Paragraph(id) ==
  CASE id = "s" -> << Run("s", 1, 40) >>
    [] id = "m" -> << Run("m", 1, 300) >>
    [] id = "b" -> << Run("b", 1, 990) >>
    [] id = "x" -> << Run("x1", 1, 600), Run("x2", 1, 500) >>
    [] id = "t" -> << Run("t", 1, 9) >>
    [] id = "w" -> << Run("w1", 1, 2), Run("w2", 1, 1001) >>

\* The text under a header, or before the first one: a list of paragraphs.
Texts ==
  { <<>>, <<"s">>, <<"m">>, <<"s", "s">>, <<"s", "b">>, <<"m", "b">>,
    <<"b", "s">>, <<"x">>, <<"s", "x">> }

Title(n) == << Run("title", 10 * n + 1, 10 * n + 5) >>

HeaderLine(level, n) == CatAll(<< Literal("#", level), Literal(" ", 1), Title(n) >>)

Blocks(text) == [k \in 1..Len(text) |-> Paragraph(text[k])]

\* The n-th section of a document: its header line and its text.
SectionBlocks(sec, n) == << HeaderLine(sec.level, n) >> \o Blocks(sec.text)

RECURSIVE AllSectionBlocks(_, _)
AllSectionBlocks(secs, n) ==
  IF n > Len(secs) THEN <<>>
  ELSE SectionBlocks(secs[n], n) \o AllSectionBlocks(secs, n + 1)

Render(pre, secs) == Join(Blocks(pre) \o AllSectionBlocks(secs, 1), Newlines(2))

MaxSections == 2

Outlines ==
  UNION { [1..n -> [level : {1, 2, 3}, text : Texts]] : n \in 0..MaxSections }

Documents ==
  { Render(pre, secs) : pre \in {<<>>, <<"m">>}, secs \in Outlines \ {<<>>} }
    \cup { Render(pre, <<>>) : pre \in Texts \cup { <<"b", "t">>, <<"w">> } }
    \cup { Render(<<>>, << [level |-> l, text |-> <<"w">>] >>) : l \in {1, 2, 3} }
    \cup { Newlines(2) }

ChunkInit ==
  /\ document = <<>>
  /\ ck_result = NoChunking

CallProcessMarkdownDocument == \E d \in Documents : processMarkdownDocument(d)

ChunkNext ==
  \/ CallProcessMarkdownDocument
       /\ UNCHANGED <<embVars, storeVars, retrVars, chatVars, srcVars, delVars, uplVars, lateVars>>

InitChunk ==
  /\ EmbInit /\ StoreIdle /\ RetrIdle /\ ChatIdle
  /\ ChunkInit /\ SrcIdle /\ DelIdle /\ UplIdle /\ LateIdle

SpecChunk == InitChunk /\ [][ChunkNext]_vars

----------------------------------------------------------------------------
\* lib/retrieval: extractSources, called on its own

SourcesReturned(srcs) == [how |-> "returned", sources |-> srcs]

extractSourcesCall(cs) ==
  /\ x_result = NoSources
  /\ x_chunks' = cs
  /\ x_result' = SourcesReturned(extractSources(cs))

\* Inputs: lists of retrieved chunks; two of the kinds differ in county and
\* title but give the same key.

SourceKinds ==
  [county : {"Boulder", "Denver"}, documentTitle : {"Guide"},
   sectionHeader : {"Redemption", "Fees", ""}]
    \cup { [county |-> "Weld|A", documentTitle |-> "Guide", sectionHeader |-> ""],
           [county |-> "Weld", documentTitle |-> "A|Guide", sectionHeader |-> ""] }

MaxRetrieved == 3

WithIds(kinds) ==
  [k \in 1..Len(kinds) |-> [id |-> k, county |-> kinds[k].county,
                            documentTitle |-> kinds[k].documentTitle,
                            sectionHeader |-> kinds[k].sectionHeader,
                            distance |-> k]]

RetrievedLists ==
  { WithIds(kinds) : kinds \in UNION { [1..n -> SourceKinds] : n \in 0..MaxRetrieved } }

CallExtractSources == \E cs \in RetrievedLists : extractSourcesCall(cs)

SourcesNext ==
  \/ CallExtractSources
       /\ UNCHANGED <<embVars, storeVars, retrVars, chatVars, chunkVars, delVars, uplVars, lateVars>>

InitSources ==
  /\ EmbInit /\ StoreIdle /\ RetrIdle /\ ChatIdle
  /\ ChunkIdle /\ SrcIdle /\ DelIdle /\ UplIdle /\ LateIdle

SpecSources == InitSources /\ [][SourcesNext]_vars

----------------------------------------------------------------------------
\* lib/db/vector-store.ts: deleteDocumentVectors, and
\* app/api/documents/[id]/route.ts: DELETE

\* DELETE FROM document_chunks WHERE document_id = $1
WithoutDocument(table, documentId) == { r \in table : r.document_id # documentId }

\* SELECT COUNT(*) FROM document_chunks WHERE document_id = $1
CountOf(table, documentId) ==
  Cardinality({ r \in table : r.document_id = documentId })

\* The table after a DELETE that answered q: done when it answered "ok",
\* not done when the server rejected it, either of the two when the
\* connection broke before the answer came.
AfterDelete(q, documentId) ==
  CASE q = "ok" -> { WithoutDocument(document_chunks, documentId) }
    [] q = "error" -> { document_chunks }
    [] OTHER -> { document_chunks, WithoutDocument(document_chunks, documentId) }

DeleteReturned(value, logged) == [how |-> "returned", value |-> value, logged |-> logged]

DeleteThrew == [how |-> "threw", value |-> FALSE, logged |-> ""]

\* Entry: the documentId guard and pool.connect() (outside the try block).
deleteDocumentVectors(documentId) ==
  /\ dv_pc = "idle" /\ dr_pc = "idle"
  /\ dv_id' = documentId
  /\ rowsBefore' = document_chunks
  /\ IF documentId = ""
     THEN /\ dv_pc' = "done"
          /\ dv_result' = DeleteReturned(FALSE, "No document ID provided for deletion")
          /\ UNCHANGED checkedOut
     ELSE \/ /\ dv_pc' = "query"
             /\ checkedOut' = checkedOut + 1
             /\ UNCHANGED dv_result
          \/ /\ dv_pc' = "done"
             /\ dv_result' = DeleteThrew
             /\ UNCHANGED checkedOut
  /\ UNCHANGED <<dr_pc, dr_id, dr_count, dr_response, connAlive, document_chunks>>

\* The DELETE statement, the return value, and client.release() in finally.
DeleteVectorsQuery ==
  /\ dv_pc = "query"
  /\ \E q \in QueryOutcomes :
       /\ connAlive' = (q # "lost")
       /\ document_chunks' \in AfterDelete(q, dv_id)
       /\ dv_result' = IF q = "ok" THEN DeleteReturned(TRUE, "")
                       ELSE DeleteReturned(FALSE, "Error deleting document vectors")
  /\ dv_pc' = "done"
  /\ checkedOut' = checkedOut - 1
  /\ UNCHANGED <<dv_id, dr_pc, dr_id, dr_count, dr_response, rowsBefore>>

DeleteResponse(status, n) == [status |-> status, chunksDeleted |-> n]

\* DELETE: the id guard and getPostgresClient().
DeleteRoute(documentId) ==
  /\ dv_pc = "idle" /\ dr_pc = "idle"
  /\ dr_id' = documentId
  /\ rowsBefore' = document_chunks
  /\ IF documentId = ""
     THEN /\ dr_pc' = "done"
          /\ dr_response' = DeleteResponse(400, 0)
          /\ UNCHANGED checkedOut
     ELSE \/ /\ dr_pc' = "check"
             /\ checkedOut' = checkedOut + 1
             /\ UNCHANGED dr_response
          \/ /\ dr_pc' = "done"
             /\ dr_response' = DeleteResponse(500, 0)
             /\ UNCHANGED checkedOut
  /\ UNCHANGED <<dv_pc, dv_id, dv_result, dr_count, connAlive, document_chunks>>

\* The COUNT query and the 'Document not found' answer.
DeleteRouteCheck ==
  /\ dr_pc = "check"
  /\ \E q \in QueryOutcomes :
       /\ connAlive' = (q # "lost")
       /\ IF q # "ok"
          THEN /\ dr_pc' = "done"
               /\ dr_response' = DeleteResponse(500, 0)
               /\ checkedOut' = checkedOut - 1
               /\ UNCHANGED dr_count
          ELSE /\ dr_count' = CountOf(document_chunks, dr_id)
               /\ IF CountOf(document_chunks, dr_id) = 0
                  THEN /\ dr_pc' = "done"
                       /\ dr_response' = DeleteResponse(404, 0)
                       /\ checkedOut' = checkedOut - 1
                  ELSE /\ dr_pc' = "delete"
                       /\ UNCHANGED <<dr_response, checkedOut>>
  /\ UNCHANGED <<dv_pc, dv_id, dv_result, dr_id, rowsBefore, document_chunks>>

\* The DELETE statement and the success answer.
DeleteRouteDelete ==
  /\ dr_pc = "delete"
  /\ \E q \in QueryOutcomes :
       /\ connAlive' = (q # "lost")
       /\ document_chunks' \in AfterDelete(q, dr_id)
       /\ dr_response' = IF q = "ok" THEN DeleteResponse(200, dr_count)
                         ELSE DeleteResponse(500, 0)
  /\ dr_pc' = "done"
  /\ checkedOut' = checkedOut - 1
  /\ UNCHANGED <<dv_pc, dv_id, dv_result, dr_id, dr_count, rowsBefore>>

\* Inputs: the stored rows and the document id.

StoredRow(id, documentId) ==
  [id |-> id, document_id |-> documentId, content |-> id,
   embedding |-> ProviderEmbed(id)]

DeleteTables ==
  SUBSET { StoredRow(1, "doc_1"), StoredRow(2, "doc_1"), StoredRow(3, "doc_0") }

DocumentIds == {"", "doc_0", "doc_1", "doc_9"}

CallDeleteDocumentVectors == \E id \in DocumentIds : deleteDocumentVectors(id)

CallDeleteRoute == \E id \in DocumentIds : DeleteRoute(id)

\* What a delete operation leaves alone.
delRest == <<chunks, s_pc, s_i, storedCount, storeResult, inTx, txRows,
             embVars, retrVars, chatVars, chunkVars, srcVars, uplVars, lateVars>>

DeleteNext ==
  \/ CallDeleteDocumentVectors /\ UNCHANGED delRest
  \/ DeleteVectorsQuery /\ UNCHANGED delRest
  \/ CallDeleteRoute /\ UNCHANGED delRest
  \/ DeleteRouteCheck /\ UNCHANGED delRest
  \/ DeleteRouteDelete /\ UNCHANGED delRest

InitDelete ==
  /\ EmbInit /\ StoreAtRest /\ RetrIdle /\ ChatIdle
  /\ document_chunks \in DeleteTables
  /\ ChunkIdle /\ SrcIdle /\ DelIdle /\ UplIdle /\ LateIdle

SpecDelete == InitDelete /\ [][DeleteNext]_vars

----------------------------------------------------------------------------
\* lib/api-client.ts: retryWithBackoff, uploadDocument, and
\* app/api/upload/route.ts: POST
\*
\* One uploadDocument call; the handler serves one request at a time.  A
\* status of 0 stands for a fetch that rejected (the request or the response
\* was lost in transit).

\* retryWithBackoff's default maxRetries
uploadMaxRetries == 3

clientVars == <<u_pc, u_attempt, u_file, u_result>>

handlerVars == <<h_pc, h_ids, h_response, fetches>>

\* `doc_${Date.now()}_${Math.random()...}`: a new id at every request.
DocumentId(n) == << "doc_1", "doc_2", "doc_3", "doc_4" >>[n]

\* The chunks as storeDocumentChunks sees them: the text of the k-th chunk is
\* text number k, or the blank text.
StoreChunksOf(cs, n) ==
  [k \in 1..Len(cs) |->
     [id |-> 10 * n + k, documentId |-> DocumentId(n),
      content |-> IF StrLen(Trim(cs[k].content)) = 0 THEN 0 ELSE k]]

UploadResponse(status, documentId) == [status |-> status, documentId |-> documentId]

UploadReturned(status) == [how |-> "returned", status |-> status]

UploadThrew(status) == [how |-> "threw", status |-> status]

\* lastError, while the loop goes on
UploadLastError(status) == [how |-> "none", status |-> status]

\* error instanceof APIError && error.status >= 400 && error.status < 500
NotRetried(status) == status >= 400 /\ status < 500

\* retryWithBackoff's catch block and the end of its loop.
ClientCatch(status) ==
  IF NotRetried(status)
  THEN /\ u_pc' = "done"
       /\ u_result' = UploadThrew(status)
       /\ u_attempt' = u_attempt
  ELSE IF u_attempt < uploadMaxRetries - 1
  THEN /\ u_pc' = "sleeping"
       /\ u_result' = UploadLastError(status)
       /\ u_attempt' = u_attempt
  ELSE /\ u_pc' = "done"
       /\ u_result' = UploadThrew(status)
       /\ u_attempt' = u_attempt + 1

\* uploadDocument: the first fetch is on its way.
uploadDocument(file) ==
  /\ u_pc = "idle"
  /\ u_pc' = "fetching"
  /\ u_attempt' = 0
  /\ u_file' = file
  /\ UNCHANGED <<u_result, handlerVars, embVars, storeVars>>

\* The request does not reach the server: fetch rejects.
UploadRequestLost ==
  /\ u_pc = "fetching"
  /\ h_pc = "idle"
  /\ ClientCatch(0)
  /\ UNCHANGED <<u_file, handlerVars, embVars, storeVars>>

\* await new Promise(resolve => setTimeout(resolve, delay)), the next attempt
UploadSleepDone ==
  /\ u_pc = "sleeping"
  /\ u_pc' = "fetching"
  /\ u_attempt' = u_attempt + 1
  /\ UNCHANGED <<u_file, u_result, handlerVars, embVars, storeVars>>

\* POST /api/upload up to its call of storeDocumentChunks: the validations,
\* the new document id, processMarkdownDocument, initDatabase.
UploadPost ==
  /\ u_pc = "fetching"
  /\ h_pc = "idle"
  /\ fetches' = fetches + 1
  /\ IF ~u_file.valid \/ StrLen(Trim(u_file.content)) = 0
     THEN /\ h_pc' = "responded"
          /\ h_response' = UploadResponse(400, "")
          /\ UNCHANGED <<h_ids, storeVars>>
     ELSE /\ h_ids' = h_ids + 1
          /\ \/ /\ h_pc' = "responded"       \* initDatabase() throws
                /\ h_response' = UploadResponse(503, "")
                /\ UNCHANGED storeVars
             \/ /\ h_pc' = "storing"
                /\ h_response' = h_response
                /\ storeDocumentChunks(
                     StoreChunksOf(chunkMarkdownDocument(u_file.content), h_ids + 1))
  /\ UNCHANGED <<clientVars, embVars>>

\* storeDocumentChunks has returned or thrown: the 500 or the 200 answer.
UploadRespond ==
  /\ h_pc = "storing"
  /\ s_pc = "done"
  /\ h_pc' = "responded"
  /\ h_response' = IF storeResult.how = "returned" /\ storeResult.success
                   THEN UploadResponse(200, DocumentId(h_ids))
                   ELSE UploadResponse(500, "")
  /\ UNCHANGED <<h_ids, fetches, clientVars, embVars, storeVars>>

\* The handler is done with the request: the next request starts a new
\* invocation, with a client of its own from the pool.
NextInvocation ==
  /\ h_pc' = "idle"
  /\ h_response' = NoUploadResponse
  /\ e_fn' = "none" /\ e_texts' = <<>> /\ validTexts' = <<>> /\ e_i' = 0
  /\ attempt' = 1 /\ e_pc' = "idle" /\ embeddings' = <<>>
  /\ e_result' = "none" /\ e_error' = "none"
  /\ chunks' = <<>> /\ s_pc' = "idle" /\ s_i' = 0 /\ storedCount' = 0
  /\ storeResult' = [how |-> "none", success |-> FALSE, vectorCount |-> 0]
  /\ inTx' = FALSE /\ txRows' = {} /\ connAlive' = TRUE
  /\ UNCHANGED <<calls, sleeps, document_chunks, checkedOut, h_ids, fetches>>

\* The response reaches the client: response.ok, or an APIError.
UploadResponseDelivered ==
  /\ u_pc = "fetching"
  /\ h_pc = "responded"
  /\ IF h_response.status = 200
     THEN /\ u_pc' = "done"
          /\ u_result' = UploadReturned(200)
          /\ u_attempt' = u_attempt
     ELSE ClientCatch(h_response.status)
  /\ NextInvocation
  /\ UNCHANGED u_file

\* The response is lost on its way: fetch rejects.
UploadResponseLost ==
  /\ u_pc = "fetching"
  /\ h_pc = "responded"
  /\ ClientCatch(0)
  /\ NextInvocation
  /\ UNCHANGED u_file

\* Inputs: the file and its form fields.

UploadFiles ==
  { [valid |-> v, content |-> c] :
      v \in BOOLEAN,
      c \in { Newlines(2),
              Render(<<"s">>, <<>>),
              Render(<<>>, << [level |-> 2, text |-> <<"m">>],
                             [level |-> 2, text |-> <<"m">>] >>) } }

CallUploadDocument == \E file \in UploadFiles : uploadDocument(file)

\* What an upload leaves alone.
uplRest == <<retrVars, chatVars, chunkVars, srcVars, delVars, lateVars>>

UploadNext ==
  \/ CallUploadDocument /\ UNCHANGED uplRest
  \/ UploadRequestLost /\ UNCHANGED uplRest
  \/ UploadSleepDone /\ UNCHANGED uplRest
  \/ UploadPost /\ UNCHANGED uplRest
  \/ (h_pc = "storing" /\ StoreBegin /\ UNCHANGED <<embVars, uplVars, uplRest>>)
  \/ (h_pc = "storing" /\ StoreEmbedCall /\ UNCHANGED <<uplVars, uplRest>>)
  \/ (h_pc = "storing" /\ s_pc = "embedding" /\ ProviderCall
        /\ UNCHANGED <<storeVars, uplVars, uplRest>>)
  \/ (h_pc = "storing" /\ s_pc = "embedding" /\ SleepDone
        /\ UNCHANGED <<storeVars, uplVars, uplRest>>)
  \/ (h_pc = "storing" /\ StoreEmbedReturn /\ UNCHANGED <<embVars, uplVars, uplRest>>)
  \/ (h_pc = "storing" /\ StoreInsert /\ UNCHANGED <<embVars, uplVars, uplRest>>)
  \/ (h_pc = "storing" /\ StoreCommit /\ UNCHANGED <<embVars, uplVars, uplRest>>)
  \/ (h_pc = "storing" /\ StoreCatch /\ UNCHANGED <<embVars, uplVars, uplRest>>)
  \/ UploadRespond /\ UNCHANGED uplRest
  \/ UploadResponseDelivered /\ UNCHANGED uplRest
  \/ UploadResponseLost /\ UNCHANGED uplRest

InitUpload ==
  /\ EmbInit /\ StoreIdle /\ RetrIdle /\ ChatIdle
  /\ ChunkIdle /\ SrcIdle /\ DelIdle /\ UplIdle /\ LateIdle

SpecUpload == InitUpload /\ [][UploadNext]_vars

----------------------------------------------------------------------------
\* app/api/documents/[id]/route.ts: DELETE, two requests side by side, each
\* on a client of its own, while other requests upload documents.  Every
\* statement runs in a transaction of its own (autocommit).

\* What a statement of a request can answer.
StatementOutcomes == {"ok", "error", "lost"}

\* DELETE: the id guard and getPostgresClient().
ConcDeleteRoute(t, documentId) ==
  /\ cd_pc[t] = "idle"
  /\ cd_id' = [cd_id EXCEPT ![t] = documentId]
  /\ IF documentId = ""
     THEN /\ cd_pc' = [cd_pc EXCEPT ![t] = "done"]
          /\ cd_response' = [cd_response EXCEPT ![t] = DeleteResponse(400, 0)]
          /\ UNCHANGED checkedOut
     ELSE \/ /\ cd_pc' = [cd_pc EXCEPT ![t] = "check"]
             /\ checkedOut' = checkedOut + 1
             /\ UNCHANGED cd_response
          \/ /\ cd_pc' = [cd_pc EXCEPT ![t] = "done"]
             /\ cd_response' = [cd_response EXCEPT ![t] = DeleteResponse(500, 0)]
             /\ UNCHANGED checkedOut
  /\ UNCHANGED <<cd_count, cd_removed, cu_commits, document_chunks>>

\* The COUNT query and the 'Document not found' answer.
ConcDeleteCheck(t) ==
  /\ cd_pc[t] = "check"
  /\ \E q \in StatementOutcomes :
       IF q # "ok"
       THEN /\ cd_pc' = [cd_pc EXCEPT ![t] = "done"]
            /\ cd_response' = [cd_response EXCEPT ![t] = DeleteResponse(500, 0)]
            /\ checkedOut' = checkedOut - 1
            /\ UNCHANGED cd_count
       ELSE /\ cd_count' = [cd_count EXCEPT ![t] = CountOf(document_chunks, cd_id[t])]
            /\ IF CountOf(document_chunks, cd_id[t]) = 0
               THEN /\ cd_pc' = [cd_pc EXCEPT ![t] = "done"]
                    /\ cd_response' = [cd_response EXCEPT ![t] = DeleteResponse(404, 0)]
                    /\ checkedOut' = checkedOut - 1
               ELSE /\ cd_pc' = [cd_pc EXCEPT ![t] = "delete"]
                    /\ UNCHANGED <<cd_response, checkedOut>>
  /\ UNCHANGED <<cd_id, cd_removed, cu_commits, document_chunks>>

\* The DELETE statement and the success answer.
ConcDeleteDelete(t) ==
  /\ cd_pc[t] = "delete"
  /\ \E q \in StatementOutcomes :
       /\ document_chunks' \in AfterDelete(q, cd_id[t])
       /\ cd_response' = [cd_response EXCEPT ![t] =
                            IF q = "ok" THEN DeleteResponse(200, cd_count[t])
                            ELSE DeleteResponse(500, 0)]
  /\ cd_removed' = [cd_removed EXCEPT ![t] =
                      Cardinality(document_chunks \ document_chunks')]
  /\ cd_pc' = [cd_pc EXCEPT ![t] = "done"]
  /\ checkedOut' = checkedOut - 1
  /\ UNCHANGED <<cd_id, cd_count, cu_commits>>

\* The rows of a document uploaded by another request.
UploadedRows(n) ==
  { StoredRow(10 * n + k, DocumentId(n)) : k \in 1..2 }

\* Uploads that other requests may commit meanwhile.
MaxUploads == 1

\* The COMMIT of another request's storeDocumentChunks: its rows, under a
\* document id of their own, become visible at once.
ConcUploadCommit ==
  /\ cu_commits < MaxUploads
  /\ cu_commits' = cu_commits + 1
  /\ document_chunks' = document_chunks \cup UploadedRows(cu_commits + 2)
  /\ UNCHANGED <<cd_pc, cd_id, cd_count, cd_removed, cd_response, checkedOut>>

\* Inputs: the rows stored before the requests, and the ids they name.

ConcTables ==
  { {}, UploadedRows(1), UploadedRows(1) \cup { StoredRow(3, "doc_0") } }

ConcDocumentIds == {"", "doc_0", "doc_1", "doc_2"}

\* What the concurrent requests leave alone.
concRest == <<chunks, s_pc, s_i, storedCount, storeResult, inTx, txRows, connAlive,
              embVars, retrVars, chatVars, chunkVars, srcVars, delVars, uplVars,
              poolVars, parseVars>>

ConcNext ==
  \/ \E t \in Requests : \E id \in ConcDocumentIds :
       ConcDeleteRoute(t, id) /\ UNCHANGED concRest
  \/ \E t \in Requests : ConcDeleteCheck(t) /\ UNCHANGED concRest
  \/ \E t \in Requests : ConcDeleteDelete(t) /\ UNCHANGED concRest
  \/ ConcUploadCommit /\ UNCHANGED concRest

InitConc ==
  /\ EmbInit /\ StoreAtRest /\ RetrIdle /\ ChatIdle
  /\ document_chunks \in ConcTables
  /\ ChunkIdle /\ SrcIdle /\ DelIdle /\ UplIdle /\ LateIdle

SpecConc == InitConc /\ [][ConcNext]_vars

----------------------------------------------------------------------------
\* lib/db/postgres-client.ts: initDatabase, testConnection, and
\* lib/db/postgres-test.ts: getTableStats.  The operations run one after the
\* other, each on a client taken from the pool.

\* The statements an operation sends: SELECT 1; the table check, the row
\* count, the sizes and the counts by county; the extension, the table, the
\* three indexes and the row count.
Statements(op) ==
  CASE op = "testConnection" -> 1
    [] op = "getTableStats" -> 4
    [] op = "initDatabase" -> 6

PoolReturned(ok) == [how |-> "returned", success |-> ok]

PoolThrew == [how |-> "threw", success |-> FALSE]

\* The client is released when a statement fails: only initDatabase has a
\* finally block, the other two release on their success paths alone.
ReleasedOnError(op) == op = "initDatabase"

\* What the operation answers when pool.connect() or a statement fails.
PoolFailure(op) == IF op = "initDatabase" THEN PoolThrew ELSE PoolReturned(FALSE)

\* Operations started in one run.
MaxOperations == 3

\* The operation's entry and pool.connect().
PoolCall(op) ==
  /\ p_pc \in {"idle", "done"}
  /\ p_calls < MaxOperations
  /\ p_calls' = p_calls + 1
  /\ p_op' = op
  /\ \/ /\ p_pc' = "query"             \* a client was acquired
        /\ p_stmt' = 1
        /\ p_result' = NoPoolResult
        /\ checkedOut' = checkedOut + 1
     \/ /\ p_pc' = "done"              \* pool.connect() rejects
        /\ p_stmt' = 0
        /\ p_result' = PoolFailure(op)
        /\ UNCHANGED checkedOut

\* One client.query of the operation and what follows it: the next
\* statement, the release and the return, or the catch block.
PoolQuery ==
  /\ p_pc = "query"
  /\ \E q \in StatementOutcomes :
       IF q # "ok"
       THEN /\ p_pc' = "done"
            /\ p_result' = PoolFailure(p_op)
            /\ p_stmt' = p_stmt
            /\ checkedOut' = IF ReleasedOnError(p_op) THEN checkedOut - 1
                             ELSE checkedOut
       ELSE \/ /\ p_stmt < Statements(p_op)
               /\ p_stmt' = p_stmt + 1
               /\ UNCHANGED <<p_pc, p_result, checkedOut>>
            \/ /\ \/ p_stmt = Statements(p_op)
                  \* getTableStats: the table does not exist
                  \/ p_op = "getTableStats" /\ p_stmt = 1
               /\ p_pc' = "done"
               /\ p_stmt' = p_stmt
               /\ p_result' = PoolReturned(TRUE)
               /\ checkedOut' = checkedOut - 1
  /\ UNCHANGED <<p_op, p_calls>>

Operations == {"testConnection", "getTableStats", "initDatabase"}

CallPoolOperation == \E op \in Operations : PoolCall(op)

\* What the utilities leave alone.
poolRest == <<chunks, s_pc, s_i, storedCount, storeResult, inTx, txRows, connAlive,
              document_chunks, embVars, retrVars, chatVars, chunkVars, srcVars,
              delVars, uplVars, concVars, parseVars>>

PoolNext ==
  \/ CallPoolOperation /\ UNCHANGED poolRest
  \/ PoolQuery /\ UNCHANGED poolRest

InitPool ==
  /\ EmbInit /\ StoreIdle /\ RetrIdle /\ ChatIdle /\ OtherIdle

SpecPool == InitPool /\ [][PoolNext]_vars

----------------------------------------------------------------------------
\* lib/api-client.ts: parseChatStream, reading the body that POST /api/chat
\* writes.
\*
\* Text is a sequence of characters.  The characters are "\n", the letters of
\* token contents, and, each standing for a fixed piece of text without
\* newlines, "data: ", "{", "}", "\\n" (a newline as JSON.stringify escapes
\* it), the names of the event types and the metadata payload.

TypeNames == {"token", "complete", "metadata"}

\* JSON.stringify of a string's characters
JsonEscape(str) == [k \in 1..Len(str) |-> IF str[k] = "\n" THEN "\\n" ELSE str[k]]

JsonUnescape(str) == [k \in 1..Len(str) |-> IF str[k] = "\\n" THEN "\n" ELSE str[k]]

\* JSON.stringify({ type, content }) and JSON.stringify(metadata)
JsonStringify(event) ==
  CASE event.type = "token" -> << "{", "token" >> \o JsonEscape(event.content) \o << "}" >>
    [] event.type = "complete" -> << "{", "complete", "}" >>
    [] event.type = "metadata" -> << "{", "metadata" >> \o event.content \o << "}" >>

\* encoder.encode(`data: ${data}\n\n`)
SseFrame(event) == << "data: " >> \o JsonStringify(event) \o << "\n", "\n" >>

RECURSIVE SseBody(_)
SseBody(events) ==
  IF events = <<>> THEN <<>> ELSE SseFrame(Head(events)) \o SseBody(Tail(events))

\* JSON.parse: the text of an object as the route writes it, or a SyntaxError.
JsonValid(str) ==
  /\ Len(str) >= 3
  /\ str[1] = "{"
  /\ str[Len(str)] = "}"
  /\ str[2] \in TypeNames
  /\ \A k \in 3..(Len(str) - 1) : str[k] \notin {"\n", "{", "}", "data: "} \cup TypeNames

JsonParse(str) ==
  [type |-> str[2], content |-> JsonUnescape(SubSeq(str, 3, Len(str) - 1))]

\* buffer.split('\n\n')
RECURSIVE SplitFrames(_, _)
SplitFrames(x, piece) ==
  IF x = <<>> THEN << piece >>
  ELSE IF Len(x) >= 2 /\ x[1] = "\n" /\ x[2] = "\n"
  THEN << piece >> \o SplitFrames(Tail(Tail(x)), <<>>)
  ELSE SplitFrames(Tail(x), Append(piece, x[1]))

\* Reads ending inside a message that are counted.
MaxPartial == 2

\* A parser that forgets the incomplete message at the end of a read.
KeepIncomplete_Dropped(lines) == <<>>

\* buffer = lines.pop() || ''
KeepIncomplete(lines) == lines[Len(lines)]

\* !line.trim()
BlankLine(line) == \A k \in 1..Len(line) : line[k] = "\n"

OnToken(arg) == [cb |-> "onToken", arg |-> arg]

OnMetadata(arg) == [cb |-> "onMetadata", arg |-> arg]

OnComplete == [cb |-> "onComplete", arg |-> <<>>]

OnError == [cb |-> "onError", arg |-> <<>>]

\* The callbacks one complete message leads to.
Dispatch(line) ==
  IF BlankLine(line) THEN <<>>
  ELSE IF line[1] = "data: "
  THEN LET dataStr == Tail(line) IN
       IF JsonValid(dataStr)
       THEN LET data == JsonParse(dataStr) IN
            IF data.type = "metadata" THEN << OnMetadata(data.content) >>
            ELSE IF data.type = "token" /\ data.content # <<>>
            THEN << OnToken(data.content) >>
            ELSE IF data.type = "complete" THEN <<>>
            ELSE << OnToken(dataStr) >>
       ELSE << OnToken(dataStr) >>
  ELSE << OnToken(line) >>

RECURSIVE DispatchAll(_)
DispatchAll(lines) ==
  IF lines = <<>> THEN <<>> ELSE Dispatch(Head(lines)) \o DispatchAll(Tail(lines))

\* parseChatStream(stream, callbacks): the reader is taken.
parseChatStream(events) ==
  /\ ps_pc = "idle"
  /\ ps_pc' = "reading"
  /\ ps_events' = events
  /\ ps_stream' = SseBody(events)
  /\ UNCHANGED <<ps_buffer, ps_calls, ps_partial>>

\* reader.read() gives the next n characters: one pass of the while loop.
ParseRead ==
  /\ ps_pc = "reading"
  /\ \E n \in 1..Len(ps_stream) :
       LET value == SubSeq(ps_stream, 1, n)
           lines == SplitFrames(ps_buffer \o value, <<>>)
       IN /\ ps_stream' = SubSeq(ps_stream, n + 1, Len(ps_stream))
          /\ ps_buffer' = KeepIncomplete(lines)
          /\ ps_calls' = ps_calls \o DispatchAll(SubSeq(lines, 1, Len(lines) - 1))
          /\ ps_partial' = IF KeepIncomplete(lines) # <<>> /\ ps_partial < MaxPartial
                           THEN ps_partial + 1 ELSE ps_partial
  /\ UNCHANGED <<ps_pc, ps_events>>

\* reader.read() gives done: onComplete, break, releaseLock.
ParseDone ==
  /\ ps_pc = "reading"
  /\ ps_stream = <<>>
  /\ ps_pc' = "done"
  /\ ps_calls' = Append(ps_calls, OnComplete)
  /\ UNCHANGED <<ps_events, ps_stream, ps_buffer, ps_partial>>

\* reader.read() rejects (the stream errored): onError, and the error is
\* thrown again.
ParseReadFails ==
  /\ ps_pc = "reading"
  /\ ps_pc' = "failed"
  /\ ps_calls' = Append(ps_calls, OnError)
  /\ UNCHANGED <<ps_events, ps_stream, ps_buffer, ps_partial>>

\* Inputs: what the route sends on a stream it closes normally: token events
\* with non-empty contents, the complete event, the metadata event.

TokenTexts == { << "a" >>, << "\n", "\n" >>, << "b", "\n" >> }

MaxTokens == 2

MetadataPayload == << "sources", "chunksUsed" >>

SentSequences ==
  { [k \in 1..Len(cs) |-> TokenEvent(cs[k])]
      \o << CompleteEvent, [type |-> "metadata", content |-> MetadataPayload] >> :
    cs \in UNION { [1..n -> TokenTexts] : n \in 0..MaxTokens } }

CallParseChatStream == \E events \in SentSequences : parseChatStream(events)

\* What the parser leaves alone.
parseRest == <<embVars, storeVars, retrVars, chatVars, chunkVars, srcVars, delVars,
               uplVars, concVars, poolVars>>

ParseNext ==
  \/ CallParseChatStream /\ UNCHANGED parseRest
  \/ ParseRead /\ UNCHANGED parseRest
  \/ ParseDone /\ UNCHANGED parseRest
  \/ ParseReadFails /\ UNCHANGED parseRest

InitParse == EmbInit /\ StoreIdle /\ RetrIdle /\ ChatIdle /\ OtherIdle

SpecParse == InitParse /\ [][ParseNext]_vars

----------------------------------------------------------------------------
\* Claims about the embedding client (checked under SpecEmbed)

Outcomes == [j \in 1..Len(calls) |-> calls[j].outcome]

\* The offsets of the batches the call has attempted.
BatchesTried == { calls[j].i : j \in 1..Len(calls) }

BatchSucceeded(b) == \E j \in 1..Len(calls) : calls[j].i = b /\ calls[j].outcome = "ok"

\* C6: generateEmbeddings is all-or-nothing: when a batch ultimately failed
\* (it was tried and never answered successfully), the finished call has
\* failed with an error; it returns no list covering only some batches.
C6_AllOrNothing ==
  (e_fn = "batch" /\ e_pc = "done" /\ \E b \in BatchesTried : ~BatchSucceeded(b))
    => e_result = "error"

\* C7: generateEmbedding answered 429 k times (k = 0, 1, 2) and then
\* successfully returns the vector after exactly k+1 provider calls and the k
\* backoff sleeps of 2^1 .. 2^k seconds, in that order; one invocation makes
\* at most 3 provider calls and fails once the third call has failed.
C7_RetryBackoff ==
  e_fn = "single" =>
    /\ Len(calls) <= 3
    /\ \A k \in 0..2 :
         ( /\ Len(calls) = k + 1
           /\ \A j \in 1..k : calls[j].outcome = "rate_limit"
           /\ calls[k + 1].outcome = "ok" )
         => /\ e_pc = "done"
            /\ e_result = "ok"
            /\ embeddings = << [of |-> e_texts[1], len |-> 1536] >>
            /\ sleeps = [j \in 1..k |-> (2 ^ j) * 1000]
    /\ (Len(calls) = 3 /\ calls[3].outcome # "ok")
         => /\ e_pc \in {"sleep", "done"}
            /\ e_result # "ok"
            /\ (e_pc = "done" => e_result = "error")
            /\ (e_pc = "sleep" => attempt = 3)

C7_Witness ==
  /\ e_fn = "single"
  /\ Outcomes = <<"rate_limit", "rate_limit", "ok">>
  /\ e_result = "ok"
  /\ sleeps = <<2000, 4000>>

\* C8: after a 401 answer the invocation (single or batch) has failed at once:
\* the 401 call is the last provider call, also when later batches remain, and
\* no backoff sleep follows it.
C8_AuthFailsImmediately ==
  \A j \in 1..Len(calls) :
    calls[j].outcome = "auth"
      => /\ j = Len(calls)
         /\ e_pc = "done"
         /\ e_result = "error"
         /\ Len(sleeps) = calls[j].sleepsBefore

C8_Witness ==
  /\ e_fn = "batch"
  /\ Len(validTexts) > batchSize
  /\ Len(calls) = 2
  /\ calls[1].outcome = "network"
  /\ calls[2].outcome = "auth"
  /\ calls[2].i = 0
  /\ e_result = "error"

\* C9: a dimension mismatch is fatal: the call that got the mismatching
\* vector is the last provider call of the invocation, and the invocation
\* fails.
C9_DimensionMismatchFatal ==
  \A j \in 1..Len(calls) :
    calls[j].outcome = "dimension" => (j = Len(calls) /\ e_result # "ok")

----------------------------------------------------------------------------
\* Claims about the vector store's write path (checked under SpecStore)

MyIds == { r.id : r \in { x \in document_chunks : x.document_id = DocId } }

AllIds == { chunks[k].id : k \in 1..Len(chunks) }

\* C1: at every moment the committed rows hold all of the call's chunks or
\* none of them; after a return with success = false none is persisted, and
\* after a return with success = true all are and vectorCount is the number
\* of chunks passed in.
C1_StoreAtomic ==
  /\ (MyIds = {} \/ MyIds = AllIds)
  /\ (storeResult.how = "returned" /\ ~storeResult.success) => MyIds = {}
  /\ (storeResult.how = "returned" /\ storeResult.success)
       => /\ MyIds = AllIds
          /\ Len(chunks) > 0
          /\ storeResult.vectorCount = Len(chunks)

\* a call that failed at its third INSERT and returned success = false
C1_Witness ==
  /\ storeResult.how = "returned"
  /\ ~storeResult.success
  /\ Len(chunks) = 3
  /\ storedCount = 2
  /\ s_i = 3

----------------------------------------------------------------------------
\* Claims about the retriever (checked under SpecRetrieve)

\* The claim's reading of the call: the rows the county filter admits (a
\* filter is given when options.county is a non-empty string), the threshold
\* and the limit in force.
C5_Candidates ==
  IF "county" \in r_options.has /\ r_options.county # ""
  THEN { r \in document_chunks : r.county = r_options.county }
  ELSE document_chunks

C5_MaxDistance == IF "minDistance" \in r_options.has THEN r_options.minDistance ELSE 12

C5_TopK == IF "topK" \in r_options.has THEN r_options.topK ELSE 5

C5_Relevant == { r \in C5_Candidates : r.distance <= C5_MaxDistance }

\* C5: retrieveRelevantChunks returns exactly the rows that are among the topK
\* nearest candidates (all rows, or the rows of the given county) and within
\* maxDistance, in ascending distance order: every distance is <= maxDistance,
\* the list is sorted and has at most topK entries.
C5_RetrievalExact ==
  r_result.how = "returned" =>
    LET res == r_result.rows
        ids == { res[k].id : k \in 1..Len(res) }
    IN
    /\ \A k \in 1..Len(res) : res[k].distance <= C5_MaxDistance
    /\ \A k \in 1..(Len(res) - 1) : res[k].distance <= res[k + 1].distance
    /\ Len(res) <= C5_TopK
    /\ Cardinality(ids) = Len(res)
    /\ \A k \in 1..Len(res) :
         \E r \in C5_Candidates :
           /\ r.id = res[k].id
           /\ r.distance = res[k].distance
           /\ r.county = res[k].county
           /\ Cardinality({ x \in C5_Candidates : x.distance < r.distance }) < C5_TopK
    /\ Len(res) = Min(C5_TopK, Cardinality(C5_Relevant))
    /\ \A r \in C5_Relevant :
         r.id \notin ids =>
           Cardinality({ x \in C5_Candidates \ {r} : x.distance <= r.distance })
             >= C5_TopK

\* all four rows stored, county = Boulder, topK = 2, threshold 0.3: row 2 is
\* of another county, row 3 is within the limit but beyond the threshold, row
\* 4 is beyond the limit; row 1 alone is returned
C5_Witness ==
  /\ r_result.how = "returned"
  /\ document_chunks = RowUniverse
  /\ r_options = [has |-> {"topK", "county", "minDistance"}, topK |-> 2,
                  county |-> "Boulder", minDistance |-> 3]
  /\ Len(r_result.rows) = 1
  /\ r_result.rows[1].id = 1

----------------------------------------------------------------------------
\* Claims about the chat route (checked under SpecChat)

EventTypes(events) == [k \in 1..Len(events) |-> events[k].type]

Count(types, t) == Cardinality({ k \in 1..Len(types) : types[k] = t })

\* The response is an event stream that has closed normally.
ClosedNormally == response.kind = "stream" /\ o_state = "closed"

\* The contents of the token events of a sequence, in order.
TokenContents(events) ==
  LET toks == SelectSeq(events, LAMBDA e : e.type = "token")
  IN [k \in 1..Len(toks) |-> toks[k].content]

\* sub occurs in str as a run of consecutive atoms.
Occurs(sub, str) ==
  \E k \in 0..(Len(str) - Len(sub)) : SubSeq(str, k + 1, k + Len(sub)) = sub

\* C2: an event stream that closes normally has carried zero or more token
\* events, then exactly one complete event, then exactly one metadata event and
\* nothing after it; and at no time has a token event followed a complete
\* event.
C2_EventSequence ==
  LET types == EventTypes(sent) IN
  /\ ClosedNormally =>
       /\ Len(types) >= 2
       /\ types[Len(types)] = "metadata"
       /\ types[Len(types) - 1] = "complete"
       /\ \A k \in 1..(Len(types) - 2) : types[k] = "token"
       /\ Count(types, "complete") = 1
       /\ Count(types, "metadata") = 1
  /\ \A j, k \in 1..Len(types) :
       j < k /\ types[j] = "complete" => types[k] # "token"

\* The generation path has closed normally after forwarding tokens.
C2_Witness ==
  /\ ClosedNormally
  /\ llmCalls = 1
  /\ Count(EventTypes(sent), "token") >= 2

\* C3: once the client has disconnected with at least two chunks of the
\* model's stream still unread, generateAnswer's loop stops before it has read
\* the model's stream to its end.
C3_DisconnectStopsGeneration ==
  (o_state = "cancelled" /\ Len(upstream.items) - pulledAtCancel >= 2)
    => pulled < Len(upstream.items)

\* C4: when the model's stream fails, the response stream ends errored (or was
\* cancelled by the client before), never closed, and carries no complete and
\* no metadata event; a response stream that closed normally has carried its
\* complete event.
C4_FailureErrorsStream ==
  LET types == EventTypes(sent) IN
  /\ (c_pc = "streaming" /\ upstream.ending = "error") =>
       /\ o_state # "closed"
       /\ Count(types, "complete") = 0
       /\ Count(types, "metadata") = 0
       /\ o_pc = "finished" => o_state \in {"errored", "cancelled"}
  /\ ClosedNormally => Count(types, "complete") = 1

\* The model's stream failed after a token had been forwarded, and the
\* response stream is errored.
C4_Witness ==
  /\ c_pc = "streaming"
  /\ upstream.ending = "error"
  /\ pulled = Len(upstream.items)
  /\ o_state = "errored"
  /\ Count(EventTypes(sent), "token") >= 1

\* Retrieval has returned without a chunk.
RetrievedNothing ==
  r_pc = "done" /\ r_result.how = "returned" /\ Len(r_result.rows) = 0

\* C10: the model is called only after retrieval has returned at least one
\* chunk; once the route has gone on from a retrieval that returned no chunk,
\* the model has not been called and the response is a closed event stream:
\* token events that spell the canned message (with the county's name when a
\* county was given), then complete, then metadata with chunksUsed 0 and no
\* sources.
C10_ModelOnlyWithChunks ==
  /\ (llmCalls > 0 \/ c_pc \in {"creating", "streaming"}) =>
       /\ r_pc = "done"
       /\ r_result.how = "returned"
       /\ Len(r_result.rows) >= 1
  /\ (RetrievedNothing /\ c_pc # "retrieving") =>
       /\ llmCalls = 0
       /\ response = [kind |-> "stream", status |-> 200]
       /\ o_state = "closed"
       /\ Len(sent) >= 3
       /\ sent[Len(sent)] = [type |-> "metadata", sources |-> <<>>, chunksUsed |-> 0]
       /\ sent[Len(sent) - 1] = [type |-> "complete"]
       /\ \A k \in 1..(Len(sent) - 2) : sent[k].type = "token"
       /\ LET text == Flatten(TokenContents(sent)) IN
            /\ text = noResultsMessage(body.message, body)
            /\ Occurs(<<"I", " ", "couldn't", " ", "find">>, text)
            /\ Occurs(<<"\"">> \o body.message \o <<"\"">>, text)
            /\ CountyGiven(body) =>
                 Occurs(Atoms(body.county) \o <<" ", "County.">>, text)
            /\ ~CountyGiven(body) => ~Occurs(<<"County.">>, text)

\* A request with a county filter got the canned answer.
C10_Witness ==
  /\ RetrievedNothing
  /\ c_pc = "done"
  /\ body.hasCounty /\ body.county = "El Paso"
  /\ llmCalls = 0
  /\ o_state = "closed"

----------------------------------------------------------------------------
\* Claims about the markdown processor (checked under SpecChunk)

Produced == ck_result.how = "returned"

Emitted == ck_result.chunks

DocSections == parseMarkdownStructure(document)

\* The positions in Emitted of the chunks of section n, and the first of them.
EmittedFor(n) == { k \in 1..Len(Emitted) : Emitted[k].section = n }

FirstEmittedFor(n) == CHOOSE k \in EmittedFor(n) : \A j \in EmittedFor(n) : k <= j

\* Section n was split, and its text chunks are these.
WasSplit(n) == StrLen(DocSections[n].content) > CHUNK_SIZE

PiecesOf(n) == splitOnParagraphs(DocSections[n].content, CHUNK_SIZE)

\* Section n was split and its first text chunk was dropped as too small.
FirstPieceDropped(n) ==
  WasSplit(n) /\ \A k \in EmittedFor(n) : Emitted[k].piece # 0

\* The header lines of the document, in order: [level, title].
DocHeaders ==
  LET lines == SplitLines(document)
      hs == HeaderLines(lines)
  IN [n \in 1..Len(hs) |->
        [level |-> HeaderLevel(lines[hs[n]]), title |-> HeaderTitle(lines[hs[n]])]]

\* The title of the last level-2 header line before the header line with this
\* title (titles are distinct within a document), or Undefined.
EnclosingH2(title) ==
  LET hs == DocHeaders
      at == CHOOSE n \in 1..Len(hs) : hs[n].title = title
      before == { n \in 1..(at - 1) : hs[n].level = 2 }
  IN IF before = {} THEN Undefined
     ELSE hs[CHOOSE n \in before : \A m \in before : m <= n].title

RECURSIVE SumLengths(_)
SumLengths(cs) ==
  IF cs = <<>> THEN 0 ELSE StrLen(Head(cs).content) + SumLengths(Tail(cs))

\* C11: the chunks of a document are numbered 0, 1, ..., n - 1 in list order
\* and each carries totalChunks = n, the length of the returned list.
C11_DenseIndexAndTotal ==
  Produced =>
    \A k \in 1..Len(Emitted) :
      /\ Emitted[k].chunkIndex = k - 1
      /\ Emitted[k].totalChunks = Len(Emitted)

\* A document with sections, of which a split one lost a small chunk, gave
\* two or more chunks.
C11_Witness ==
  /\ Produced
  /\ Len(Emitted) >= 2
  /\ \E n \in 1..Len(DocSections) :
       WasSplit(n) /\ Cardinality(EmittedFor(n)) < Len(PiecesOf(n))

\* The end of section n's context label: its title and the closing bracket.
LabelOf(n) == Cat(DocSections[n].title, Literal("]", 1))

\* C12: a section's context label occurs only in the first chunk emitted for
\* the section, and a level-2 section whose first text chunk was dropped still
\* has the label on the first chunk emitted for it.
C12_LabelOncePerSection ==
  Produced =>
    \A n \in 1..Len(DocSections) :
      /\ \A k \in EmittedFor(n) :
           Occurs(LabelOf(n), Emitted[k].content) => k = FirstEmittedFor(n)
      /\ (DocSections[n].level = 2 /\ FirstPieceDropped(n) /\ EmittedFor(n) # {}) =>
           Occurs(LabelOf(n), Emitted[FirstEmittedFor(n)].content)

\* C13: every chunk but the first begins with the last
\* min(CHUNK_OVERLAP, |r|) characters of r, the content the chunk before it
\* had before its own overlap prefix was added.
C13_OverlapPrefix ==
  Produced =>
    \A k \in 2..Len(Emitted) :
      LET r == Emitted[k - 1].raw
          n == Min(CHUNK_OVERLAP, StrLen(r))
      IN SliceFirst(Emitted[k].content, n) = SliceLast(r, n)

\* C14: the contents of the chunks of a document are together at least as
\* long as the document.
C14_NoCharactersLost ==
  Produced => SumLengths(Emitted) >= StrLen(document)

\* C18: the first chunk emitted for a level-3 section that follows a level-2
\* heading carries "[Context: {currentH2} > {title}]" and a blank line; the
\* first chunk of a level-2 section carries "[Context: {title}]".
C18_ContextLabel ==
  Produced =>
    \A n \in 1..Len(DocSections) :
      LET sec == DocSections[n]
          h2 == EnclosingH2(sec.title)
      IN EmittedFor(n) # {} =>
           /\ (sec.level = 3 /\ h2 # Undefined) =>
                Occurs(CatAll(<< Literal("[Context: ", 10), h2, Literal(" > ", 3),
                                 sec.title, Literal("]", 1), Newlines(2) >>),
                       Emitted[FirstEmittedFor(n)].content)
           /\ sec.level = 2 =>
                Occurs(CatAll(<< Literal("[Context: ", 10), sec.title,
                                 Literal("]", 1) >>),
                       Emitted[FirstEmittedFor(n)].content)

\* C19: a chunk of a level-3 section has the title of the last level-2 heading
\* before the section as sectionHeader and the section's title as
\* subsectionHeader; a chunk of a level-2 section has the section's title as
\* sectionHeader.
C19_SectionHeaders ==
  Produced =>
    \A k \in 1..Len(Emitted) :
      Emitted[k].section > 0 =>
        LET sec == DocSections[Emitted[k].section] IN
        /\ sec.level = 3 =>
             /\ Emitted[k].sectionHeader = EnclosingH2(sec.title)
             /\ Emitted[k].subsectionHeader = sec.title
        /\ sec.level = 2 => Emitted[k].sectionHeader = sec.title

----------------------------------------------------------------------------
\* Claims about extractSources (checked under SpecSources)

EntryTriple(e) == << e.county, e.documentTitle, e.section >>

ChunkTriple(c) == << c.county, c.documentTitle, c.sectionHeader >>

\* The places in the input where a chunk with this entry's triple stands.
PlacesOf(e) == { i \in 1..Len(x_chunks) : ChunkTriple(x_chunks[i]) = EntryTriple(e) }

FirstPlaceOf(e) == CHOOSE i \in PlacesOf(e) : \A j \in PlacesOf(e) : i <= j

----------------------------------------------------------------------------
\* Claims about deleting a document (checked under SpecDelete)

\* The rows of the document that were stored when the operation started.
Matched(documentId) == { r \in rowsBefore : r.document_id = documentId }

\* C16: a delete that reports success has removed the document's rows and no
\* others; with no matching row the operation succeeds with a count of 0:
\* deleteDocumentVectors returns true unless the database failed, and the
\* DELETE route answers 200 with chunksDeleted = 0 unless the database failed.
C16_DeleteRemovesExactly ==
  /\ (dv_pc = "done" /\ dv_result.how = "returned" /\ dv_result.value) =>
       document_chunks = rowsBefore \ Matched(dv_id)
  /\ (dv_pc = "done" /\ dv_id # "" /\ Matched(dv_id) = {}
        /\ dv_result.how = "returned"
        /\ dv_result.logged # "Error deleting document vectors") =>
       dv_result.value /\ document_chunks = rowsBefore
  /\ (dr_pc = "done" /\ dr_response.status = 200) =>
       /\ document_chunks = rowsBefore \ Matched(dr_id)
       /\ dr_response.chunksDeleted = Cardinality(Matched(dr_id))
  /\ (dr_pc = "done" /\ dr_id # "" /\ Matched(dr_id) = {}
        /\ dr_response.status # 500) =>
       dr_response = [status |-> 200, chunksDeleted |-> 0]

----------------------------------------------------------------------------
\* Claims about failures of the retriever (checked under SpecRetrieve)

\* C17: a call during which the embedding call, the connection or a query
\* failed ends with an error, never with a list; a call with a non-blank
\* query during which nothing failed returns a list, which is empty when no
\* stored row passes the county filter and the threshold.
C17_EmptyIsNotFailure ==
  r_pc = "done" =>
    /\ r_failure # "none" => r_result.how = "threw"
    /\ (r_failure = "none" /\ ~IsBlank(r_query)) =>
         /\ r_result.how = "returned"
         /\ C5_Relevant = {} => r_result.rows = <<>>
    /\ r_result.how = "returned" => e_result = "ok" /\ connAlive

\* Rows are stored, but none for the county asked for: an empty list.
C17_Witness ==
  /\ r_pc = "done"
  /\ document_chunks = RowUniverse
  /\ "county" \in r_options.has /\ r_options.county = "Weld"
  /\ r_result = [how |-> "returned", rows |-> <<>>]

----------------------------------------------------------------------------
\* Claims about uploading a document (checked under SpecUpload)

\* The document ids under which chunks are stored.
StoredDocumentIds == { r.document_id : r \in document_chunks }

\* C20: one uploadDocument call leaves chunks under at most one document id.
C20_AtMostOneDocument == Cardinality(StoredDocumentIds) <= 1

----------------------------------------------------------------------------
\* Claims about the pairing of texts and vectors (checked under SpecEmbed and
\* SpecStore)

\* generateEmbeddings has returned normally.
BatchReturned == e_fn = "batch" /\ e_pc = "done" /\ e_result = "ok"

\* C21: whenever generateEmbeddings(texts) returns normally, the result has
\* exactly one vector per input text and the i-th vector is the embedding of
\* the i-th text.
C21_OneVectorPerText ==
  BatchReturned =>
    /\ Len(embeddings) = Len(e_texts)
    /\ \A k \in 1..Len(e_texts) : embeddings[k] = ProviderEmbed(e_texts[k])

\* The rows committed for the call's document.
MyRows == { r \in document_chunks : r.document_id = DocId }

\* generateEmbeddings returned fewer vectors than there are chunks.
ShortResult == s_pc = "done" /\ BatchReturned /\ Len(embeddings) # Len(chunks)

\* C22: every committed row of the call holds the embedding of its own
\* content, and a result of generateEmbeddings that is shorter than the chunk
\* list ends in a rollback, with nothing committed.
C22_RowsHoldOwnEmbedding ==
  /\ \A r \in MyRows : r.embedding = ProviderEmbed(r.content)
  /\ ShortResult => (MyRows = {} /\ ~storeResult.success)

\* three chunks committed with their vectors
C22_Witness ==
  /\ s_pc = "done"
  /\ storeResult.how = "returned"
  /\ storeResult.success
  /\ Len(chunks) = 3
  /\ Cardinality(MyRows) = 3

----------------------------------------------------------------------------
\* Claims about concurrent requests (checked under SpecConc)

\* C23: a DELETE response that reports success with chunksDeleted = n removed
\* exactly n rows itself, and two DELETE requests for the same document never
\* both report success with the same non-zero count.
C23_DeleteCountsOwnRows ==
  /\ \A t \in Requests :
       cd_response[t].status = 200 => cd_response[t].chunksDeleted = cd_removed[t]
  /\ \A t, u \in Requests :
       (/\ t # u
        /\ cd_id[t] = cd_id[u]
        /\ cd_response[t].status = 200
        /\ cd_response[u].status = 200
        /\ cd_response[t].chunksDeleted > 0)
         => cd_response[t].chunksDeleted # cd_response[u].chunksDeleted

----------------------------------------------------------------------------
\* Claims about the connection pool (checked under SpecStore and SpecPool)

\* A call to the embedding provider is outstanding or its backoff sleep runs.
WaitingOnProvider == e_pc \in {"call", "sleep"}

\* C24: no pooled connection is checked out while a task waits on the
\* embedding provider or sleeps between its retries.
C24_NoConnectionHeldWhileEmbedding == WaitingOnProvider => checkedOut = 0

\* No utility operation is under way.
PoolAtRest == p_pc \in {"idle", "done"}

\* C25: after any sequence of completed operations, successful or failed, no
\* client is checked out of the pool.
C25_EveryClientReleased == PoolAtRest => checkedOut = 0

----------------------------------------------------------------------------
\* Claims about small chunks and paragraph splitting (checked under SpecChunk)

\* The text chunks of split section n that gave no chunk.
DroppedPieces(n) ==
  { i \in 0..(Len(PiecesOf(n)) - 1) : \A k \in EmittedFor(n) : Emitted[k].piece # i }

\* C26: a chunk shorter than MIN_CHUNK_SIZE (overlap included) is emitted only
\* as the only chunk of its document, on every path (split sections, sections
\* that fit in one chunk, documents without headings), and a text chunk is
\* dropped only when it is shorter than MIN_CHUNK_SIZE.
C26_SmallChunksDropped ==
  Produced =>
    /\ \A k \in 1..Len(Emitted) :
         StrLen(Emitted[k].content) < MIN_CHUNK_SIZE => Len(Emitted) = 1
    /\ \A n \in 1..Len(DocSections) :
         WasSplit(n) =>
           \A i \in DroppedPieces(n) : StrLen(PiecesOf(n)[i + 1]) < MIN_CHUNK_SIZE

\* Every text chunk splitOnParagraphs gave while the document was chunked.
TextChunks ==
  IF Len(DocSections) = 0
  THEN LET pieces == splitOnParagraphs(document, CHUNK_SIZE)
       IN { pieces[i] : i \in 1..Len(pieces) }
  ELSE UNION { { PiecesOf(n)[i] : i \in 1..Len(PiecesOf(n)) } :
               n \in { m \in 1..Len(DocSections) : WasSplit(m) } }

\* C27: a text chunk that splitOnParagraphs built from two or more
\* paragraphs, blank lines between them included, is at most maxSize long.
C27_JoinedParagraphsFit ==
  Produced =>
    \A piece \in TextChunks :
      Len(SplitBlank(piece)) >= 2 => StrLen(piece) <= CHUNK_SIZE

\* C28: a document whose trimmed content is not empty gives at least one
\* chunk.
C28_AtLeastOneChunk ==
  (Produced /\ StrLen(Trim(document)) > 0) => Len(Emitted) >= 1

----------------------------------------------------------------------------
\* Claims about the stream parser (checked under SpecParse)

\* The token events among the events sent.
TokensSent == SelectSeq(ps_events, LAMBDA e : e.type = "token")

\* The callbacks the events sent call for: onToken for every token event in
\* order, onMetadata, onComplete.
ExpectedCalls ==
  [k \in 1..Len(TokensSent) |-> OnToken(TokensSent[k].content)]
    \o << OnMetadata(MetadataPayload), OnComplete >>

\* C29: however the body is cut into reads, a stream read to its end has led
\* to onToken once per token event, in order and with the event's content,
\* then onMetadata once with the metadata, then onComplete once.
C29_CallbacksIndependentOfCuts == ps_pc = "done" => ps_calls = ExpectedCalls

\* a body with two token events, the first holding two newlines, read to its
\* end in pieces of which two or more ended inside a message
C29_Witness ==
  /\ ps_pc = "done"
  /\ ps_partial >= 2
  /\ Len(TokensSent) = 2
  /\ TokensSent[1].content = << "\n", "\n" >>
  /\ ps_calls = ExpectedCalls


\* The distinct triples that occur in the input of extractSources.
TriplesIn(cs) == { ChunkTriple(cs[i]) : i \in 1..Len(cs) }

\* C30: extractSources returns one entry for each distinct (county,
\* documentTitle, sectionHeader) triple of its input: chunks whose triples
\* differ are never merged into one source, whatever characters the fields
\* hold.
C30_OneEntryPerTriple ==
  x_result.how = "returned" =>
    { EntryTriple(x_result.sources[k]) : k \in 1..Len(x_result.sources) }
      = TriplesIn(x_chunks)

\* Two chunks with different triples gave a single source.
C30_Merged ==
  /\ x_result.how = "returned"
  /\ Len(x_chunks) = 2
  /\ ChunkTriple(x_chunks[1]) # ChunkTriple(x_chunks[2])
  /\ Len(x_result.sources) = 1

====
